---- MODULE Spec2Model ----
(***************************************************************************)
(* A model of the morai fibre runtime: the Fibre resume state machine, the *)
(* FibreQueue ring buffer, the bounded SharedQueue used as move channel and *)
(* the single threaded Scheduler that drains a fan of priority queues.      *)
(*                                                                          *)
(* A fibre is identified by its index in `frame` (the k-th coroutine that   *)
(* was created); 0 stands for an empty Fibre wrapper (no coroutine handle). *)
(* Epoch times and durations are whole numbers of clock quanta.             *)
(***************************************************************************)
EXTENDS Integers, Sequences, FiniteSets, TLC

\* ------------------------------------------------------------------ bounds
\* Number of fibres that may be started in the general specifications.
MaxFibres == 2
\* Number of times one fibre body may be resumed before it has to return.
MaxSteps == 2
\* Largest epoch handed to Scheduler::update().
MaxEpoch == 2
\* Largest sleep duration / wait timeout a fibre asks for.
MaxDur == 1
\* Number of Scheduler::update() calls in one run of the model.
MaxUpdates == 4
\* SchedulerParams::move_queue_size used by the modelled schedulers.
MoveQueueSize == 1
\* SchedulerParams::initial_queue_size used by the modelled schedulers.
InitialQueueSize == 4
\* In the priority specification: the number of fibres started, the number of
\* leading fibres that take any priority, and the number of started fibres from
\* which update() is called (a queue has had to grow by then).
PrioFibres == 34
PrioFree == 2
PrioGrow == 33

\* ------------------------------------------------------- program constants
\* FibreQueue::FibreQueue: capacity = std::max<uint32_t>(capacity, 16u).
MinQueueCapacity == 16
\* The ring buffer indices are uint32_t and are always masked with capacity - 1,
\* so only their low bits count: the wrap of index - 1 is taken modulo 2^30, a
\* multiple of every capacity (TLC integers hold 31 bits).
IndexBits == 30

Schedulers == {1, 2}

\* ------------------------------------------------------------ bit helpers
RECURSIVE BitAnd(_, _)
BitAnd(a, b) ==
  IF a = 0 \/ b = 0 THEN 0
  ELSE (IF a % 2 = 1 /\ b % 2 = 1 THEN 1 ELSE 0) + 2 * BitAnd(a \div 2, b \div 2)

RECURSIVE BitOr(_, _)
BitOr(a, b) ==
  IF a = 0 THEN b
  ELSE IF b = 0 THEN a
  ELSE (IF a % 2 = 1 \/ b % 2 = 1 THEN 1 ELSE 0) + 2 * BitOr(a \div 2, b \div 2)

\* value >> n
ShiftRight(value, n) == value \div (2 ^ n)

\* nextPowerOfTwo(uint32_t): smears the highest set bit downwards and adds one.
nextPowerOfTwo(value) ==
  IF value <= 1 THEN 1
  ELSE LET v1 == BitOr(value, ShiftRight(value, 1))
           v2 == BitOr(v1, ShiftRight(v1, 2))
           v3 == BitOr(v2, ShiftRight(v2, 4))
           v4 == BitOr(v3, ShiftRight(v3, 8))
           v5 == BitOr(v4, ShiftRight(v4, 16))
       IN v5 + 1

Max(a, b) == IF a >= b THEN a ELSE b

\* ------------------------------------------------------------- FibreQueue
\* A queue is [priority, buffer, head, tail]; slot i of the C++ vector is
\* buffer[i + 1]; a slot holds a fibre index or 0 (an empty Fibre).
Cap(q) == Len(q.buffer)

\* FibreQueue::FibreQueue(priority, capacity)
FibreQueueNew(priority, capacity) ==
  LET cap == nextPowerOfTwo(Max(capacity, MinQueueCapacity))
  IN [priority |-> priority, buffer |-> [i \in 1..cap |-> 0], head |-> 0, tail |-> 0]

nextIndex(q, index) == BitAnd((index + 1) % (2 ^ IndexBits), Cap(q) - 1)

priorIndex(q, index) == BitAnd((index - 1) % (2 ^ IndexBits), Cap(q) - 1)

FQSize(q) == IF q.head >= q.tail THEN q.head - q.tail ELSE Cap(q) + q.head - q.tail

FQEmpty(q) == q.head = q.tail

FQFull(q) == nextIndex(q, q.head) = q.tail

FQPopNewest(q) ==
  IF FQEmpty(q) THEN <<0, q>>
  ELSE <<q.buffer[priorIndex(q, q.head) + 1],
         [q EXCEPT !.buffer[priorIndex(q, q.head) + 1] = 0, !.head = priorIndex(q, q.head)]>>

\* FibreQueue::pop: <<fibre, queue>>; the slot popped is left empty (moved from).
FQPop(q) ==
  IF FQEmpty(q) THEN <<0, q>>
  ELSE <<q.buffer[q.tail + 1],
         [q EXCEPT !.buffer[q.tail + 1] = 0, !.tail = nextIndex(q, q.tail)]>>

\* The queued entries (placeholders included) in pop order.
RECURSIVE FQEntriesFrom(_, _)
FQEntriesFrom(q, i) ==
  IF i = q.head THEN << >> ELSE <<q.buffer[i + 1]>> \o FQEntriesFrom(q, nextIndex(q, i))

FQEntries(q) == FQEntriesFrom(q, q.tail)

FQGrowReversed(q) ==
  LET es == FQEntries(q)
  IN [q EXCEPT !.buffer = [i \in 1..(2 * Cap(q)) |->
                             IF i <= Len(es) THEN es[Len(es) + 1 - i] ELSE 0],
               !.head = Len(es),
               !.tail = 0]

\* FibreQueue::grow: pops everything into a buffer of twice the size, from slot 0.
FQGrow(q) ==
  LET es == FQEntries(q)
  IN [q EXCEPT !.buffer = [i \in 1..(2 * Cap(q)) |-> IF i <= Len(es) THEN es[i] ELSE 0],
               !.head = Len(es),
               !.tail = 0]

FQPushBack(q, f) == [q EXCEPT !.buffer[q.head + 1] = f, !.head = nextIndex(q, q.head)]

FQPushFrontAtHead(q, f) == [q EXCEPT !.buffer[q.head + 1] = f, !.head = nextIndex(q, q.head)]

FQPushFront(q, f) ==
  LET insert_index == priorIndex(q, q.tail)
  IN [q EXCEPT !.buffer[insert_index + 1] = f, !.tail = insert_index]

\* FibreQueue::push(fibre, position)
FQPush(q, f, position) ==
  LET g == IF FQFull(q) THEN FQGrow(q) ELSE q
  IN IF position = "Back" THEN FQPushBack(g, f) ELSE FQPushFront(g, f)

\* std::ranges::find_if over the whole buffer: the first slot holding `id`, or 0.
FQFind(q, id) ==
  LET hits == {i \in 1..Cap(q) : q.buffer[i] = id}
  IN IF hits = {} THEN 0 ELSE CHOOSE i \in hits : \A j \in hits : i <= j

\* FibreQueue::cancel(id): the entry is swapped with an empty Fibre in place.
FQCancelFound(q, id) == id # 0 /\ FQFind(q, id) # 0

FQCancelKept(q, id) == q

FQCancelShrinks(q, id) ==
  IF FQCancelFound(q, id)
  THEN [q EXCEPT !.buffer[FQFind(q, id)] = 0, !.tail = nextIndex(q, q.tail)]
  ELSE q

FQCancel(q, id) ==
  IF FQCancelFound(q, id) THEN [q EXCEPT !.buffer[FQFind(q, id)] = 0] ELSE q

\* FibreQueue::contains(id): some entry between tail and head has this Id; the Id
\* of a placeholder is the invalid Id, 0.
FQContains(q, id) ==
  ~FQEmpty(q) /\ \E k \in 1..Len(FQEntries(q)) : FQEntries(q)[k] = id

FQClearBuffer(q) == [q EXCEPT !.buffer = [i \in 1..Cap(q) |-> 0]]

\* FibreQueue::clear
FQClear(q) == [q EXCEPT !.buffer = [i \in 1..Cap(q) |-> 0], !.head = 0, !.tail = 0]

\* The fibres a queue's buffer holds (in any slot).
FQHeld(q) == {q.buffer[i] : i \in 1..Cap(q)} \ {0}

\* ------------------------------------------------------------ SharedQueue
\* The bounded FIFO of raw coroutine handles: [items, capacity].
SharedQueueNew(capacity) == [items |-> << >>, capacity |-> capacity]

SQSize(sq) == Len(sq.items)

\* _queue.try_emplace(handle)
SQHasRoom(sq) == Len(sq.items) < sq.capacity

SQPushResidualKept(f, pushed) == f

\* What the caller's wrapper holds after a push of fibre f that found room / no room:
\* the handle is released on success and handed back (residual) on failure.
SQPushResidual(f, pushed) == IF pushed THEN 0 ELSE f

\* SharedQueue::push: <<queue, residual wrapper>>
SQPush(sq, f) ==
  IF SQHasRoom(sq)
  THEN <<[sq EXCEPT !.items = Append(@, f)], SQPushResidual(f, TRUE)>>
  ELSE <<sq, SQPushResidual(f, FALSE)>>

SQPopLast(sq) ==
  IF sq.items = << >> THEN <<0, sq>>
  ELSE <<sq.items[Len(sq.items)], [sq EXCEPT !.items = SubSeq(@, 1, Len(@) - 1)]>>

SQPopPeek(sq) == IF sq.items = << >> THEN <<0, sq>> ELSE <<Head(sq.items), sq>>

\* SharedQueue::pop: <<fibre, queue>>
SQPop(sq) ==
  IF sq.items = << >> THEN <<0, sq>> ELSE <<Head(sq.items), [sq EXCEPT !.items = Tail(@)]>>

\* ------------------------------------------------------------------ state
VARIABLES
  frame,      \* frame[f]: the promise (detail::Frame) of fibre f, with alive/done
  running,    \* running[f]: the running bit of the shared Id cell of fibre f
  sched,      \* sched[s]: the Scheduler s (queues, move channel, time, mode)
  upd,        \* the Scheduler::update() call in progress, if any
  signal,     \* the flag read by the predicates fibres wait on
  hist,       \* hist[f]: history of fibre f (body resumes, pending suspension)
  ev,         \* history: what the last Fibre::resume call did (kind "none" otherwise)
  last,       \* history: how the last update() call of each scheduler ended
  ticks,      \* history: ticks[s] is the number of update() calls made on scheduler s
  threads     \* the threads other than the one driving update(): locals and position

vars == <<frame, running, sched, upd, signal, hist, ev, last, ticks, threads>>

Fibres == 1..Len(frame)

NoResumption == [time_s |-> 0, kind |-> "none", id |-> 0]

\* The promise of a freshly created coroutine (Fibre(handle, id) has run).  With
\* the promise the coroutine frame holds the locals of the body: scope tells whether
\* the FinalAction at the top of the body is not yet constructed ("unborn", the
\* body has not begun), alive in the frame ("live") or destroyed ("left"), and
\* released counts the calls of its action.
FrameNew(priority) ==
  [alive |-> TRUE, done |-> FALSE, exception |-> FALSE, cancel |-> FALSE,
   resumption |-> NoResumption, reschedule |-> << >>, priority |-> priority,
   move_operation |-> << >>, scope |-> "unborn", released |-> 0]

\* The thread that is inside Scheduler::move: which statement it is at (pc), the
\* handle it grabbed, the target and the priority it was given, and whether its
\* write went to a frame that was already destroyed.
MoverIdle == [pc |-> "idle", f |-> 0, target |-> 0, priority |-> << >>, stale |-> FALSE]

ThreadsNew == [mover |-> MoverIdle]

\* ------------------------------------------------------ Resumption helpers
yieldLater == [time_s |-> 1, kind |-> "none", id |-> 0]

yield == NoResumption

sleep(duration_s) == [time_s |-> duration_s, kind |-> "none", id |-> 0]

\* wait(condition, timeout_s) on the user's predicate (the signal flag)
wait(timeout_s) == [time_s |-> timeout_s, kind |-> "signal", id |-> 0]

\* wait([id]() { return !id.isRunning(); })
waitId(id) == [time_s |-> 0, kind |-> "id", id |-> id]

\* Id::isRunning: an invalid Id (0) is never running.
isRunning(run, id) == id # 0 /\ id <= Len(run) /\ run[id]

\* resumption.condition()
Condition(res, run, sig) ==
  IF res.kind = "signal" THEN sig ELSE ~isRunning(run, res.id)

\* --------------------------------------------------- suspension points
\* What a fibre body does when it is resumed: it runs to its next suspension
\* point `op`, or returns, or throws.
\*   kind: yield | sleep | wait | ywait | id | move | resched | throw | return
\*   d: duration or timeout, g: awaited Id, tgt/prio: moveTo target and optional
\*   priority, prio/pos: reschedule priority and position.
Op(kind, d, g, tgt, prio, pos) ==
  [kind |-> kind, d |-> d, g |-> g, tgt |-> tgt, prio |-> prio, pos |-> pos]

StartOp == Op("start", 0, 0, 0, << >>, "Back")

Yield == Op("yield", 0, 0, 0, << >>, "Back")

Return == Op("return", 0, 0, 0, << >>, "Back")

Throw == Op("throw", 0, 0, 0, << >>, "Back")

FibreIdSuspendAlways(fr, self, id) == [fr EXCEPT !.resumption = waitId(id)]

\* FibreIdAwaitable::await_suspend
FibreIdSuspend(fr, self, id) ==
  IF self # id THEN [fr EXCEPT !.resumption = waitId(id)]
  ELSE [fr EXCEPT !.resumption = yield]

BodyRunSwallow(fr, self, op) ==
  CASE op.kind = "yield"   -> [fr EXCEPT !.resumption = yield]
    [] op.kind = "sleep"   -> [fr EXCEPT !.resumption = sleep(op.d)]
    [] op.kind = "wait"    -> [fr EXCEPT !.resumption = wait(op.d)]
    [] op.kind = "ywait"   -> [fr EXCEPT !.resumption = wait(op.d)]
    [] op.kind = "id"      -> FibreIdSuspend(fr, self, op.g)
    [] op.kind = "move"    -> [fr EXCEPT !.move_operation =
                                 <<[target |-> op.tgt, priority |-> op.prio]>>]
    [] op.kind = "resched" -> [fr EXCEPT !.reschedule =
                                 <<[priority |-> op.prio[1], position |-> op.pos]>>]
    [] OTHER               -> [fr EXCEPT !.done = TRUE]

\* The promise after the body ran up to `op` (await_suspend / yield_value /
\* unhandled_exception / return_void followed by final_suspend).
BodyRun(fr, self, op) ==
  CASE op.kind = "yield"   -> [fr EXCEPT !.resumption = yield]
    [] op.kind = "sleep"   -> [fr EXCEPT !.resumption = sleep(op.d)]
    [] op.kind = "wait"    -> [fr EXCEPT !.resumption = wait(op.d)]
    [] op.kind = "ywait"   -> [fr EXCEPT !.resumption = wait(op.d)]
    [] op.kind = "id"      -> FibreIdSuspend(fr, self, op.g)
    [] op.kind = "move"    -> [fr EXCEPT !.move_operation =
                                 <<[target |-> op.tgt, priority |-> op.prio]>>]
    [] op.kind = "resched" -> [fr EXCEPT !.reschedule =
                                 <<[priority |-> op.prio[1], position |-> op.pos]>>]
    [] op.kind = "throw"   -> [fr EXCEPT !.exception = TRUE, !.done = TRUE]
    [] OTHER               -> [fr EXCEPT !.done = TRUE]

\* The locals of the body after it ran up to `op`: the first resume constructs the
\* FinalAction; leaving the body, by return or by an exception, destroys it.
ScopeRun(fr, op) ==
  IF op.kind \in {"return", "throw"}
  THEN [fr EXCEPT !.scope = "left", !.released = @ + 1]
  ELSE [fr EXCEPT !.scope = "live"]

\* ~FinalAction on the destruction of a suspended frame: the action is invoked if
\* the object is alive.
FinalAction(fr) ==
  IF fr.scope = "live" THEN [fr EXCEPT !.scope = "left", !.released = @ + 1] ELSE fr

\* Whether the body can stop at `op`: a co_await whose condition is already met
\* (await_ready) does not suspend, the body runs on to a later suspension point.
CanSuspendAt(op, run, sig) ==
  CASE op.kind = "wait" -> ~sig
    [] op.kind = "id"   -> isRunning(run, op.g)
    [] OTHER            -> TRUE

\* -------------------------------------------------------------- Scheduler
\* A world is [frame, running, sched]: what the calls below read and change.
World(fr, run, sc) == [frame |-> fr, running |-> run, sched |-> sc]

DestroyKeepsRunning(W, f) == IF f = 0 THEN W ELSE [W EXCEPT !.frame[f].alive = FALSE]

DestroyFreesOnly(W, f) ==
  IF f = 0 THEN W ELSE [W EXCEPT !.frame[f].alive = FALSE, !.running[f] = FALSE]

\* handle.destroy(): the locals alive at the suspension point are destroyed, and
\* ~promise_type clears the running bit of the fibre's Id.
Destroy(W, f) ==
  IF f = 0 THEN W
  ELSE [W EXCEPT !.frame[f] = [FinalAction(@) EXCEPT !.alive = FALSE], !.running[f] = FALSE]

RECURSIVE DestroyAll(_, _)
DestroyAll(W, fs) ==
  IF fs = {} THEN W
  ELSE LET f == CHOOSE x \in fs : TRUE IN DestroyAll(Destroy(W, f), fs \ {f})

\* std::ranges::sort(params.priority_levels)
RECURSIVE SortLevels(_)
SortLevels(levels) ==
  IF levels = << >> THEN << >>
  ELSE LET m == CHOOSE i \in 1..Len(levels) : \A j \in 1..Len(levels) : levels[i] <= levels[j]
           rest == [k \in 1..(Len(levels) - 1) |-> IF k < m THEN levels[k] ELSE levels[k + 1]]
       IN <<levels[m]>> \o SortLevels(rest)

\* Scheduler::Scheduler(params).  exception_handling records the ExceptionHandling
\* the driver asks for; no code of Scheduler.cpp reads such a mode, updateQueue
\* has the single exception path modelled in Dispatch.
SchedulerNew(priority_levels, initial_queue_size, move_queue_size, mode) ==
  LET sorted == SortLevels(priority_levels)
      levels == IF sorted = << >> THEN <<0>> ELSE sorted
  IN [fibre_queues |-> [i \in 1..Len(levels) |-> FibreQueueNew(levels[i], initial_queue_size)],
      move_queue |-> SharedQueueNew(move_queue_size),
      time |-> [epoch_time_s |-> 0, dt |-> 0],
      exception_handling |-> mode]

\* Scheduler::selectQueue: <<index of the queue, whether the priority matched>>
RECURSIVE SelectLoop(_, _, _, _)
SelectLoop(queues, priority, i, best_idx) ==
  IF i > Len(queues) THEN <<best_idx, FALSE>>
  ELSE IF priority = queues[i].priority THEN <<i, TRUE>>
  ELSE IF priority > queues[i].priority THEN SelectLoop(queues, priority, i + 1, i)
  ELSE <<best_idx, FALSE>>

selectQueue(queues, priority) == SelectLoop(queues, priority, 1, 1)[1]

\* The number of errors Scheduler::selectQueue logs: one when it leaves the loop
\* without an exact match.
logErrorsNever(queues, priority) == 0

logErrors(queues, priority) == IF SelectLoop(queues, priority, 1, 1)[2] THEN 0 ELSE 1

\* Scheduler::enqueue
enqueue(sch, fr, f) ==
  LET idx == selectQueue(sch.fibre_queues, fr[f].priority)
  IN [sch EXCEPT !.fibre_queues[idx] = FQPush(@, f, "Back")]

\* Scheduler::pumpMoveQueue
RECURSIVE pumpMoveQueue(_, _)
pumpMoveQueue(sch, fr) ==
  LET p == SQPop(sch.move_queue)
  IN IF p[1] = 0 THEN sch
     ELSE pumpMoveQueue(enqueue([sch EXCEPT !.move_queue = p[2]], fr, p[1]), fr)

\* Scheduler::move(fibre, priority): [W, residual]
SchedulerMove(W, target, f, priority) ==
  LET p == SQPush(W.sched[target].move_queue, f)
      W1 == [W EXCEPT !.sched[target].move_queue = p[1]]
  IN [W |-> IF priority # << >> /\ p[2] = 0
            THEN [W1 EXCEPT !.frame[f].priority = priority[1]]
            ELSE W1,
      residual |-> p[2]]

runningCountQueues(sch) ==
  LET sizes == [i \in 1..Len(sch.fibre_queues) |-> FQSize(sch.fibre_queues[i])]
      sum[i \in 0..Len(sizes)] == IF i = 0 THEN 0 ELSE sizes[i] + sum[i - 1]
  IN sum[Len(sizes)]

\* Scheduler::runningCount
runningCount(sch) ==
  LET sizes == [i \in 1..Len(sch.fibre_queues) |-> FQSize(sch.fibre_queues[i])]
      sum[i \in 0..Len(sizes)] == IF i = 0 THEN 0 ELSE sizes[i] + sum[i - 1]
  IN sum[Len(sizes)] + SQSize(sch.move_queue)

\* Scheduler::empty
empty(sch) == runningCount(sch) = 0

\* ----------------------------------------------------------- Fibre::resume
\* Fibre::cancel() (the wrapper of an empty slot counts as cancelled)
FibreCancelNever(fr, f) == f = 0

FibreCancel(fr, f) == IF f = 0 THEN TRUE ELSE fr[f].cancel

\* Fibre::done()
FibreDone(fr, f) == f = 0 \/ fr[f].done

StaysAsleepNoTimeout(res, run, sig, epoch_time_s) ==
  IF res.kind # "none" THEN ~Condition(res, run, sig) ELSE epoch_time_s < res.time_s

\* The resumption check at the top of Fibre::resume: TRUE when the fibre sleeps on.
StaysAsleep(res, run, sig, epoch_time_s) ==
  IF res.kind # "none"
  THEN ~Condition(res, run, sig) /\ (res.time_s <= 0 \/ epoch_time_s < res.time_s)
  ELSE epoch_time_s < res.time_s

AbsoluteTimeRelative(res, epoch_time_s) == res

\* The relative resumption time becomes an absolute epoch time.
AbsoluteTime(res, epoch_time_s) ==
  IF res.time_s > 0 THEN [res EXCEPT !.time_s = @ + epoch_time_s] ELSE res

ResumeMoveDropped(W, f, body) ==
  LET move_op == W.frame[f].move_operation[1]
      W1 == [W EXCEPT !.frame[f].move_operation = << >>]
      m == SchedulerMove(W1, move_op.target, f, move_op.priority)
  IN IF m.residual = 0
     THEN [mode |-> "Moved", reschedule |-> << >>, W |-> m.W, wrapper |-> 0,
           body |-> body, moved |-> "ok"]
     ELSE [mode |-> "Continue", reschedule |-> << >>, W |-> m.W,
           wrapper |-> m.residual, body |-> body, moved |-> "full"]

\* The part of Fibre::resume that carries out a pending move.
ResumeMove(W, f, body) ==
  LET move_op == W.frame[f].move_operation[1]
      W1 == [W EXCEPT !.frame[f].move_operation = << >>]
      m == SchedulerMove(W1, move_op.target, f, move_op.priority)
  IN IF m.residual = 0
     THEN [mode |-> "Moved", reschedule |-> << >>, W |-> m.W, wrapper |-> 0,
           body |-> body, moved |-> "ok"]
     ELSE [mode |-> "Continue", reschedule |-> << >>,
           W |-> [m.W EXCEPT !.frame[f].move_operation = <<move_op>>],
           wrapper |-> m.residual, body |-> body, moved |-> "full"]

\* Fibre::resume(epoch_time_s); `op` is what the body does if it gets resumed.
\* [mode, reschedule, W, wrapper (what the Fibre object holds afterwards), body
\* (whether the coroutine was resumed), moved (outcome of the move attempt)]
Resume(W, f, epoch_time_s, op, sig) ==
  LET fr == W.frame[f]
      ret(mode, W1, body) ==
        [mode |-> mode, reschedule |-> << >>, W |-> W1, wrapper |-> f, body |-> body,
         moved |-> "none"]
  IN IF FibreDone(W.frame, f) THEN ret("Expire", W, FALSE)
     ELSE IF StaysAsleep(fr.resumption, W.running, sig, epoch_time_s)
     THEN ret("Sleep", W, FALSE)
     ELSE LET W1 == [W EXCEPT !.frame[f].resumption = NoResumption]
              body == fr.move_operation = << >>
              W2 == IF body THEN [W1 EXCEPT !.frame[f] = ScopeRun(BodyRun(@, f, op), op)] ELSE W1
              fr2 == W2.frame[f]
          IN IF body /\ fr2.exception THEN ret("Exception", W2, TRUE)
             ELSE IF body /\ fr2.done THEN ret("Expire", W2, TRUE)
             ELSE IF fr2.move_operation # << >> THEN ResumeMove(W2, f, body)
             ELSE [mode |-> "Continue", reschedule |-> fr2.reschedule,
                   W |-> [W2 EXCEPT !.frame[f].resumption = AbsoluteTime(@, epoch_time_s),
                                    !.frame[f].reschedule = << >>],
                   wrapper |-> f, body |-> body, moved |-> "none"]

\* ---------------------------------------------------------------- history
\* ev: the last Fibre::resume call made by updateQueue (call = "resume"), with what
\* was true when it was made: the suspension the fibre was in (op, taken at epoch t),
\* the scheduler that owned it (at), whether it had been polled and left asleep
\* since (slept), the epoch (now), the value of the user's predicate (pred), the
\* running bit of the awaited Id (grun), whether a move was pending (retry) and
\* whether the move channel of its target had room (room); and
\* what the call did: body resumed or not, the mode returned, the move outcome,
\* whether update() threw (ret), the queue the fibre was popped from (qi) and the
\* priority it had then (priority).
\* A Scheduler::start call leaves call = "start" with the scheduler (s), the new
\* fibre (f), the queue selected for it (qi) and the number of errors logged (mismatch);
\* a Scheduler::cancelAll call leaves call = "cancelAll" with the scheduler (s), and
\* a Scheduler::cancel call call = "cancel" with the scheduler (s), the Id (f) and
\* the value returned (ret).
NoEv ==
  [call |-> "none", s |-> 0, f |-> 0, ret |-> FALSE, op |-> StartOp, t |-> 0, now |-> 0,
   pred |-> FALSE, grun |-> FALSE, retry |-> FALSE, body |-> FALSE, mode |-> "none",
   moved |-> "none", at |-> 0, slept |-> FALSE, room |-> TRUE, qi |-> 0, mismatch |-> 0,
   priority |-> 0]

\* hist[f]: the number of times the body of f was resumed (steps), the suspension
\* point it stopped at last (op), the epoch of that resume (t) and the number of
\* the update() call that made it (tick, 0 before the first), the scheduler
\* that owns it (at), whether it was polled and left asleep since (slept), how it
\* ended (fin) and the number of body resumes it had had by then (fsteps); prog is
\* the code of the body where it is fixed: the suspension points it reaches in turn;
\* born is the number of update() calls its first scheduler had made when it started.
HistNew(s, prog) ==
  [steps |-> 0, op |-> StartOp, t |-> 0, tick |-> ticks[s], fin |-> "none", fsteps |-> 0,
   at |-> s, slept |-> FALSE, prog |-> prog, born |-> ticks[s]]

RECURSIVE SumTicks(_)
SumTicks(ss) ==
  IF ss = {} THEN 0 ELSE LET s == CHOOSE x \in ss : TRUE IN ticks[s] + SumTicks(ss \ {s})

NoUpdate == [s |-> 0, qi |-> 0, i |-> 0, expired |-> 0, epoch |-> 0]

\* ------------------------------------------------------------------ update
\* Scheduler::update walks the queues in order; updateQueue pumps the move channel
\* and then loops while i < queue.size() + expired_count.  Advance finds the next
\* loop iteration to run: [sch, qi, i, expired, finished].
RECURSIVE AdvanceShort(_, _, _, _, _)
AdvanceShort(sch, fr, qi, i, expired) ==
  IF qi >= 1 /\ i < FQSize(sch.fibre_queues[qi])
  THEN [sch |-> sch, qi |-> qi, i |-> i, expired |-> expired, finished |-> FALSE]
  ELSE IF qi >= Len(sch.fibre_queues)
  THEN [sch |-> sch, qi |-> qi, i |-> i, expired |-> expired, finished |-> TRUE]
  ELSE AdvanceShort(pumpMoveQueue(sch, fr), fr, qi + 1, 0, 0)

RECURSIVE Advance(_, _, _, _, _)
Advance(sch, fr, qi, i, expired) ==
  IF qi >= 1 /\ i < FQSize(sch.fibre_queues[qi]) + expired
  THEN [sch |-> sch, qi |-> qi, i |-> i, expired |-> expired, finished |-> FALSE]
  ELSE IF qi >= Len(sch.fibre_queues)
  THEN [sch |-> sch, qi |-> qi, i |-> i, expired |-> expired, finished |-> TRUE]
  ELSE Advance(pumpMoveQueue(sch, fr), fr, qi + 1, 0, 0)

\* An unwinding that would also drop what the drained queue still holds, without
\* destroying it.
DispatchDropsQueue(r, s, qi, f) ==
  IF r.mode = "Expire" \/ r.mode = "Moved"
  THEN [W |-> Destroy(r.W, r.wrapper), expired |-> 1, threw |-> FALSE]
  ELSE IF r.mode = "Exception"
  THEN [W |-> [Destroy(r.W, r.wrapper) EXCEPT !.sched[s].fibre_queues[qi] = FQClear(@)],
        expired |-> 0, threw |-> TRUE]
  ELSE LET queues == r.W.sched[s].fibre_queues
           target == IF r.reschedule = << >> THEN qi
                     ELSE IF r.W.frame[f].priority = r.reschedule[1].priority THEN qi
                     ELSE selectQueue(queues, r.reschedule[1].priority)
       IN IF target # qi
          THEN [W |-> [r.W EXCEPT !.frame[f].priority = r.reschedule[1].priority,
                                  !.sched[s].fibre_queues[target] =
                                     FQPush(@, r.wrapper, r.reschedule[1].position)],
                expired |-> 1, threw |-> FALSE]
          ELSE [W |-> [r.W EXCEPT !.sched[s].fibre_queues[qi] = FQPush(@, r.wrapper, "Back")],
                expired |-> 0, threw |-> FALSE]

\* What updateQueue does with a fibre after Fibre::resume returned r (the fibre
\* was popped from queue qi of scheduler s): [W, expired (0 or 1), threw]
Dispatch(r, s, qi, f) ==
  IF r.mode = "Expire" \/ r.mode = "Moved"
  THEN [W |-> Destroy(r.W, r.wrapper), expired |-> 1, threw |-> FALSE]
  ELSE IF r.mode = "Exception"
  THEN \* std::rethrow_exception(ex): the local Fibre is destroyed by the unwinding
       [W |-> Destroy(r.W, r.wrapper), expired |-> 0, threw |-> TRUE]
  ELSE LET queues == r.W.sched[s].fibre_queues
           target == IF r.reschedule = << >> THEN qi
                     ELSE IF r.W.frame[f].priority = r.reschedule[1].priority THEN qi
                     ELSE selectQueue(queues, r.reschedule[1].priority)
       IN IF target # qi
          THEN [W |-> [r.W EXCEPT !.frame[f].priority = r.reschedule[1].priority,
                                  !.sched[s].fibre_queues[target] =
                                     FQPush(@, r.wrapper, r.reschedule[1].position)],
                expired |-> 1, threw |-> FALSE]
          ELSE [W |-> [r.W EXCEPT !.sched[s].fibre_queues[qi] = FQPush(@, r.wrapper, "Back")],
                expired |-> 0, threw |-> FALSE]

\* The suspension points a body may reach when fibre f is resumed: the next one of
\* its code, or any of `ops` for a fibre whose code is left open.
BodyOps(f, ops) ==
  IF hist[f].steps < Len(hist[f].prog)
  THEN {hist[f].prog[hist[f].steps + 1]}
  ELSE {op \in ops :
          /\ (hist[f].steps + 1 >= MaxSteps => op.kind \in {"return", "throw"})
          /\ CanSuspendAt(op, running, signal)
          /\ op.g <= Len(frame)}

\* The suspension points of the fibres whose code is fixed.
ProgOps ==
  UNION {{hist[f].prog[k] : k \in 1..Len(hist[f].prog)} : f \in 1..Len(hist)}

\* The history of fibre f after Fibre::resume returned r at epoch now.
HistAfter(h, r, op, now, tick) ==
  IF ~r.body
  THEN [h EXCEPT !.slept = @ \/ r.mode = "Sleep",
                 !.at = IF r.moved = "ok" THEN h.op.tgt ELSE @]
  ELSE [h EXCEPT !.steps = @ + 1, !.op = op, !.t = now, !.tick = tick, !.slept = FALSE,
                 !.at = IF r.moved = "ok" THEN op.tgt ELSE @,
                 !.fin = IF h.fin # "none" THEN @
                         ELSE IF op.kind = "throw" THEN "exception"
                         ELSE IF op.kind = "return" THEN "return" ELSE @,
                 !.fsteps = IF h.fin = "none" /\ op.kind \in {"throw", "return"}
                            THEN h.steps + 1 ELSE @]

\* Scheduler::start called by the body that scheduler s is resuming, once for each
\* of `children` (records [priority, prog]), in world W.
RECURSIVE StartChildren(_, _, _)
StartChildren(W, s, children) ==
  IF children = << >> THEN W
  ELSE LET f == Len(W.frame) + 1
           fr == Append(W.frame, FrameNew(children[1].priority))
       IN StartChildren(World(fr, Append(W.running, TRUE),
                              [W.sched EXCEPT ![s] = enqueue(@, fr, f)]),
                        s, Tail(children))

ChildHist(s, children) == [k \in 1..Len(children) |-> HistNew(s, children[k].prog)]

\* One iteration of the loop of updateQueue, up to the next loop test. The body,
\* if this iteration resumes it, starts `children` on this scheduler before it
\* reaches its next suspension point.
UpdateIterStarting(s, ops, children) ==
  /\ upd.s = s
  /\ \E op \in ops \cup ProgOps \cup {StartOp} :
       LET sch1 == pumpMoveQueue(sched[s], frame)
           p == FQPop(sch1.fibre_queues[upd.qi])
           f == p[1]
           W0 == World(frame, running,
                       [sched EXCEPT ![s] = [sch1 EXCEPT !.fibre_queues[upd.qi] = p[2]]])
           W1 == StartChildren(W0, s, children)
           cancelled == FibreCancel(frame, f)
           r == Resume(W1, f, upd.epoch, op, signal)
           d == IF cancelled
                THEN [W |-> Destroy(W1, f), expired |-> 1, threw |-> FALSE]
                ELSE Dispatch(r, s, upd.qi, f)
           a == Advance(d.W.sched[s], d.W.frame, upd.qi, upd.i + 1, upd.expired + d.expired)
       IN /\ IF ~cancelled /\ r.body THEN op \in BodyOps(f, ops) ELSE op = StartOp
          /\ children # << >> => ~cancelled /\ r.body
          /\ frame' = d.W.frame
          /\ running' = d.W.running
          /\ sched' = IF d.threw THEN d.W.sched ELSE [d.W.sched EXCEPT ![s] = a.sch]
          /\ upd' = IF d.threw \/ a.finished THEN NoUpdate
                    ELSE [upd EXCEPT !.qi = a.qi, !.i = a.i, !.expired = a.expired]
          /\ last' = [last EXCEPT ![s] = IF d.threw THEN "threw"
                                         ELSE IF a.finished THEN "returned" ELSE "running"]
          /\ hist' = IF cancelled THEN hist
                     ELSE [hist EXCEPT ![f] = HistAfter(@, r, op, upd.epoch, ticks[s])]
                            \o ChildHist(s, children)
          /\ ev' = IF cancelled THEN NoEv
                   ELSE [call |-> "resume", s |-> s, f |-> f, ret |-> d.threw,
                         op |-> hist[f].op, t |-> hist[f].t, now |-> upd.epoch,
                         pred |-> signal, grun |-> isRunning(running, hist[f].op.g),
                         retry |-> frame[f].move_operation # << >>, body |-> r.body,
                         mode |-> r.mode, moved |-> r.moved, at |-> hist[f].at,
                         slept |-> hist[f].slept, qi |-> upd.qi, mismatch |-> 0,
                         priority |-> frame[f].priority,
                         room |-> LET o == IF r.body THEN op ELSE hist[f].op
                                  IN o.kind = "move" => SQHasRoom(W1.sched[o.tgt].move_queue)]
  /\ UNCHANGED <<signal, ticks, threads>>

\* An iteration in which the body starts no fibre.
UpdateIter(s, ops) == UpdateIterStarting(s, ops, << >>)

\* Scheduler::update(epoch_time_s) is entered: the time is taken and the first queue
\* with something to do is looked for (an update of empty queues returns at once).
UpdateBegin(s, epoch_time_s) ==
  /\ upd.s = 0
  /\ SumTicks(Schedulers) < MaxUpdates
  /\ ticks' = [ticks EXCEPT ![s] = @ + 1]
  /\ epoch_time_s >= sched[s].time.epoch_time_s
  /\ LET sch1 == [sched[s] EXCEPT !.time = [epoch_time_s |-> epoch_time_s,
                                            dt |-> epoch_time_s - @.epoch_time_s]]
         a == Advance(sch1, frame, 0, 0, 0)
     IN /\ sched' = [sched EXCEPT ![s] = a.sch]
        /\ upd' = IF a.finished THEN NoUpdate
                  ELSE [s |-> s, qi |-> a.qi, i |-> a.i, expired |-> a.expired,
                        epoch |-> epoch_time_s]
        /\ last' = [last EXCEPT ![s] = IF a.finished THEN "returned" ELSE "running"]
  /\ ev' = NoEv
  /\ UNCHANGED <<frame, running, signal, hist, threads>>

\* Scheduler::start(fibre, priority, name) of a newly created coroutine.
Start(s, priority, prog) ==
  /\ upd.s = 0
  /\ LET f == Len(frame) + 1
         fr == Append(frame, FrameNew(priority))
     IN /\ frame' = fr
        /\ running' = Append(running, TRUE)
        /\ hist' = Append(hist, HistNew(s, prog))
        /\ sched' = [sched EXCEPT ![s] = enqueue(@, fr, f)]
        /\ ev' = [NoEv EXCEPT !.call = "start", !.s = s, !.f = f,
                             !.qi = selectQueue(sched[s].fibre_queues, priority),
                             !.mismatch = logErrors(sched[s].fibre_queues, priority)]
  /\ UNCHANGED <<upd, signal, last, ticks, threads>>

\* Scheduler::cancel(fibre_id): the first queue that holds the fibre drops it.
\* A search that would also look into the inbound move channel and report a fibre
\* found there as found in the first queue.
CancelHitChannel(sch, id) ==
  {i \in 1..Len(sch.fibre_queues) : FQCancelFound(sch.fibre_queues[i], id)}
    \cup (IF \E k \in 1..Len(sch.move_queue.items) : sch.move_queue.items[k] = id
          THEN {1} ELSE {})

CancelHit(sch, id) ==
  {i \in 1..Len(sch.fibre_queues) : FQCancelFound(sch.fibre_queues[i], id)}

Cancel(s, id) ==
  /\ upd.s = 0
  /\ LET hit == CancelHit(sched[s], id)
         qi == CHOOSE i \in hit : \A j \in hit : i <= j
         W == World(frame, running, sched)
         W1 == IF hit = {} THEN W
               ELSE Destroy([W EXCEPT !.sched[s].fibre_queues[qi] = FQCancel(@, id)], id)
     IN /\ frame' = W1.frame
        /\ running' = W1.running
        /\ sched' = W1.sched
        /\ hist' = IF hit = {} \/ hist[id].fin # "none" THEN hist
                   ELSE [hist EXCEPT ![id].fin = "cancel", ![id].fsteps = hist[id].steps]
        /\ ev' = [NoEv EXCEPT !.call = "cancel", !.s = s, !.f = id, !.ret = hit # {}]
  /\ UNCHANGED <<upd, signal, last, ticks, threads>>

\* Scheduler::cancelAll
CancelAll(s) ==
  /\ upd.s = 0
  /\ LET sch == sched[s]
         held == UNION {FQHeld(sch.fibre_queues[i]) : i \in 1..Len(sch.fibre_queues)}
                   \cup {sch.move_queue.items[k] : k \in 1..Len(sch.move_queue.items)}
         W == World(frame, running,
                    [sched EXCEPT ![s].fibre_queues =
                                     [i \in 1..Len(sch.fibre_queues) |-> FQClear(sch.fibre_queues[i])],
                                  ![s].move_queue.items = << >>])
         W1 == DestroyAll(W, held)
     IN /\ frame' = W1.frame
        /\ running' = W1.running
        /\ sched' = W1.sched
        /\ hist' = [f \in 1..Len(hist) |->
                      IF f \in held /\ hist[f].fin = "none"
                      THEN [hist[f] EXCEPT !.fin = "cancelAll", !.fsteps = hist[f].steps]
                      ELSE hist[f]]
        /\ ev' = [NoEv EXCEPT !.call = "cancelAll", !.s = s]
  /\ UNCHANGED <<upd, signal, last, ticks, threads>>

\* The state the fibres' predicates read changes.
SetSignal(b) ==
  /\ upd.s = 0
  /\ signal # b
  /\ signal' = b
  /\ ev' = NoEv
  /\ UNCHANGED <<frame, running, sched, upd, hist, last, ticks, threads>>

\* ---------------------------------------------------------- specifications
\* SchedulerParams::priority_levels of the schedulers with a single queue.
PriorityLevels == <<0>>

\* SchedulerParams::priority_levels of the schedulers with three queues, as given
\* (unsorted) to the constructor.
PrioLevels3 == <<1, 0, 2>>

Priorities(levels) == {levels[i] : i \in 1..Len(levels)}

\* ExceptionHandling
Modes == {"Log", "Rethrow"}

InitWith(levels, modes) ==
  /\ frame = << >>
  /\ running = << >>
  /\ hist = << >>
  /\ \E mode \in modes :
       sched = [s \in Schedulers |->
                  SchedulerNew(levels, InitialQueueSize, MoveQueueSize, mode)]
  /\ upd = NoUpdate
  /\ signal = FALSE
  /\ ev = NoEv
  /\ last = [s \in Schedulers |-> "none"]
  /\ ticks = [s \in Schedulers |-> 0]
  /\ threads = ThreadsNew

\* ---- fibres that move between two schedulers
MoveOps == {Yield, Return} \cup {Op("move", 0, 0, t, << >>, "Back") : t \in Schedulers}

InitMove == InitWith(PriorityLevels, {"Rethrow"})

NextMove ==
  \/ \E s \in Schedulers : Len(frame) < MaxFibres /\ Start(s, 0, << >>)
  \/ \E s \in Schedulers : UpdateBegin(s, 0)
  \/ \E s \in Schedulers : UpdateIter(s, MoveOps)

SpecMove == InitMove /\ [][NextMove]_vars

\* ---- fibres that sleep and wait on one scheduler driven through the epochs
TimeOps ==
  {Yield, Return}
    \cup {Op("sleep", d, 0, 0, << >>, "Back") : d \in 1..MaxDur}
    \cup {Op(k, d, 0, 0, << >>, "Back") : k \in {"wait", "ywait"}, d \in 0..MaxDur}

InitTime == InitWith(PriorityLevels, {"Rethrow"})

NextTime ==
  \/ Len(frame) < MaxFibres /\ Start(1, 0, << >>)
  \/ \E b \in BOOLEAN : SetSignal(b)
  \/ \E e \in 0..MaxEpoch : UpdateBegin(1, e)
  \/ UpdateIter(1, TimeOps)

SpecTime == InitTime /\ [][NextTime]_vars

\* ---- fibres that await each other, throw, and get cancelled on one scheduler
LifeOps ==
  {Yield, Return, Throw} \cup {Op("id", 0, g, 0, << >>, "Back") : g \in 1..MaxFibres}

InitLife == InitWith(PriorityLevels, Modes)

NextLife ==
  \/ Len(frame) < MaxFibres /\ Start(1, 0, << >>)
  \/ \E id \in 1..Len(frame) : Cancel(1, id)
  \/ CancelAll(1)
  \/ UpdateBegin(1, 0)
  \/ UpdateIter(1, LifeOps)

SpecLife == InitLife /\ [][NextLife]_vars

\* ---- fibres that loop on co_await moveTo(the other scheduler)
MoverBody(s) ==
  LET other == CHOOSE t \in Schedulers : t # s
  IN <<Op("move", 0, 0, other, << >>, "Back"), Op("move", 0, 0, s, << >>, "Back"),
       Op("move", 0, 0, other, << >>, "Back")>>

InitMover == InitWith(PriorityLevels, {"Rethrow"})

NextMover ==
  \/ \E s \in Schedulers : Len(frame) < MaxFibres /\ Start(s, 0, MoverBody(s))
  \/ \E s \in Schedulers : UpdateBegin(s, 0)
  \/ \E s \in Schedulers : UpdateIter(s, {Return})

SpecMover == InitMover /\ [][NextMover]_vars

\* ----------------------------------------------------------------- holders
\* The number of FibreQueue slots of scheduler s that hold the handle of fibre f.
RECURSIVE SumSlots(_, _, _)
SumSlots(queues, i, f) ==
  IF i > Len(queues) THEN 0
  ELSE Cardinality({k \in 1..Cap(queues[i]) : queues[i].buffer[k] = f})
         + SumSlots(queues, i + 1, f)

HeldByQueues(s, f) == SumSlots(sched[s].fibre_queues, 1, f)

\* The number of entries of the move channel of scheduler s that hold the handle of f.
HeldByChannel(s, f) ==
  Cardinality({k \in 1..Len(sched[s].move_queue.items) : sched[s].move_queue.items[k] = f})

HeldBy(s, f) == HeldByQueues(s, f) + HeldByChannel(s, f)

RECURSIVE SumHeld(_, _)
SumHeld(ss, f) ==
  IF ss = {} THEN 0
  ELSE LET s == CHOOSE x \in ss : TRUE IN HeldBy(s, f) + SumHeld(ss \ {s}, f)

\* The number of places that hold the coroutine handle of fibre f.
Holders(f) == SumHeld(Schedulers, f)

\* ---- fibres of several priorities, each yielding once, on one scheduler
PrioBody == <<Yield, Return>>

PrioBulk == PrioLevels3[1]

InitPrio == InitWith(PrioLevels3, {"Rethrow"})

\* The first PrioFree fibres and the last ones take any declared priority, those
\* in between take PrioBulk; update() is called once a queue has had to grow.
NextPrio ==
  \/ \E p \in Priorities(PrioLevels3) :
       /\ Len(frame) < PrioFibres
       /\ p = PrioBulk \/ Len(frame) < PrioFree \/ Len(frame) >= PrioGrow
       /\ Start(1, p, PrioBody)
  \/ Len(frame) >= PrioGrow /\ UpdateBegin(1, 0)
  \/ UpdateIter(1, {})

SpecPrio == InitPrio /\ [][NextPrio]_vars

\* --------------------------------------------------------------------- C1
\* C1: a fibre that co_awaits moveTo(T) ends up owned by T or stays on the source
\* with its move pending, never both and never neither.  In every reachable state
\* the handle of a live fibre is held by exactly one place (a queue slot or a move
\* channel entry) and that place belongs to the scheduler that owns the fibre; a
\* destroyed fibre is held nowhere; a fibre is resumed only by its owner; after a
\* successful move the fibre is held by T (and by no queue of the source when T is
\* another scheduler) with no move left pending; after a failed move it is held
\* by a queue of the source with the move still pending.
C1_MoveOwnership ==
  /\ \A f \in Fibres :
       /\ Holders(f) = IF frame[f].alive THEN 1 ELSE 0
       /\ frame[f].alive => HeldBy(hist[f].at, f) = 1
  /\ ev.call = "resume" => ev.s = ev.at
  /\ ev.moved = "ok" =>
       /\ frame[ev.f].alive
       /\ HeldBy(hist[ev.f].op.tgt, ev.f) = 1
       /\ hist[ev.f].op.tgt # ev.s => HeldBy(ev.s, ev.f) = 0
       /\ frame[ev.f].move_operation = << >>
  /\ ev.moved = "full" =>
       /\ frame[ev.f].alive
       /\ HeldByQueues(ev.s, ev.f) = 1
       /\ HeldByChannel(hist[ev.f].op.tgt, ev.f) = 0
       /\ frame[ev.f].move_operation # << >>

\* A fibre has just been moved to the channel of another scheduler.
C1_Witness ==
  /\ ev.call = "resume"
  /\ ev.moved = "ok"
  /\ hist[ev.f].op.tgt # ev.s
  /\ HeldByChannel(hist[ev.f].op.tgt, ev.f) = 1

\* -------------------------------------------------------------------- C10
\* C10: a move fails exactly when the move channel of the target is full; then
\* Fibre::resume returns Continue with the pending move closure put back and the
\* fibre stays valid (alive, running, held once, by a queue of the source).  A
\* resume of a fibre whose move is pending attempts the move again without
\* resuming the body, and it returns Moved exactly when the attempt succeeds.
C10_FailedMoveRetry ==
  /\ ev.call = "resume" =>
       /\ (ev.moved = "full") <=> ~ev.room
       /\ (ev.moved = "ok") <=> (ev.mode = "Moved")
       /\ ev.retry => ~ev.body /\ ev.moved \in {"ok", "full"}
  /\ ev.moved = "full" =>
       /\ ev.mode = "Continue"
       /\ frame[ev.f].alive /\ running[ev.f]
       /\ frame[ev.f].move_operation =
            <<[target |-> hist[ev.f].op.tgt, priority |-> hist[ev.f].op.prio]>>
       /\ HeldByQueues(ev.s, ev.f) = 1
       /\ Holders(ev.f) = 1
  /\ \A f \in Fibres :
       frame[f].alive /\ frame[f].move_operation # << >> =>
         hist[f].op.kind = "move" /\ HeldByQueues(hist[f].at, f) = 1

\* A retried move succeeds: the move was pending when resume was called (an
\* earlier attempt found the channel full) and this call returned Moved.
C10_Witness ==
  /\ ev.call = "resume"
  /\ ev.retry
  /\ ev.mode = "Moved"
  /\ hist[ev.f].op.tgt # ev.s

\* ---------------------------------------------------------------------- C5
\* C5: a fibre suspended on wait(pred, timeout) at epoch t is resumed by a call
\* of Fibre::resume at epoch now exactly when pred() is true or the timeout is
\* positive and now >= t + timeout (so with no timeout it is never resumed while
\* pred() is false, and it is released by the first call at which the condition
\* holds); otherwise the call returns Sleep.  The wait releases once: as long
\* as the fibre is suspended on it the resumption holds the predicate and the
\* deadline t + timeout (0 for no timeout), and it is replaced when the body runs.
C5_WaitRelease ==
  /\ ev.call = "resume" /\ ev.op.kind \in {"wait", "ywait"} =>
       /\ ev.body <=> (ev.pred \/ (ev.op.d > 0 /\ ev.now >= ev.t + ev.op.d))
       /\ ~ev.body => ev.mode = "Sleep"
  /\ \A f \in Fibres :
       frame[f].alive /\ ~frame[f].done /\ hist[f].op.kind \in {"wait", "ywait"} =>
         frame[f].resumption =
           [time_s |-> IF hist[f].op.d > 0 THEN hist[f].t + hist[f].op.d ELSE 0,
            kind |-> "signal", id |-> 0]

\* A wait is released by its timeout: the predicate is false, the fibre has been
\* polled and left asleep before, and now its body is resumed.
C5_Witness ==
  /\ ev.call = "resume"
  /\ ev.op.kind \in {"wait", "ywait"}
  /\ ev.body /\ ~ev.pred /\ ev.slept

\* ---------------------------------------------------------------------- C6
\* C6: a fibre that suspended with sleep(d), d > 0, in a resume at epoch t is left
\* asleep by every call of Fibre::resume with epoch < t + d and its body is
\* resumed by the first call with epoch >= t + d; while it sleeps the resumption
\* holds the absolute deadline t + d, whatever the number of updates in between.
C6_SleepDeadline ==
  /\ ev.call = "resume" /\ ev.op.kind = "sleep" =>
       /\ ev.body <=> ev.now >= ev.t + ev.op.d
       /\ ~ev.body => ev.mode = "Sleep"
  /\ \A f \in Fibres :
       frame[f].alive /\ ~frame[f].done /\ hist[f].op.kind = "sleep" =>
         frame[f].resumption =
           [time_s |-> hist[f].t + hist[f].op.d, kind |-> "none", id |-> 0]

\* A sleep taken at an epoch after 0 ends: the fibre was left asleep by an earlier
\* update and is resumed now, at its deadline.
C6_Witness ==
  /\ ev.call = "resume"
  /\ ev.op.kind = "sleep"
  /\ ev.body /\ ev.slept
  /\ ev.t > 0 /\ ev.now = ev.t + ev.op.d

\* ---------------------------------------------------------------------- C2
\* C2: the running bit of the Id of a started fibre is true as long as the promise
\* of the fibre exists and false once it is destroyed, which happens exactly when
\* the fibre ends (it returned, threw, was cancelled or cleared with the queues of
\* its scheduler); and the bit never goes from false back to true.
C2_RunningBit ==
  /\ [](/\ Len(running) = Len(frame)
        /\ \A f \in Fibres :
             /\ running[f] <=> frame[f].alive
             /\ running[f] <=> hist[f].fin = "none")
  /\ [][\A f \in Fibres : ~running[f] => ~running'[f]]_vars

\* A fibre that was resumed and yielded has been destroyed by a cancel, with another
\* fibre still running.
C2_Witness ==
  \E f, g \in Fibres :
    /\ ~running[f] /\ hist[f].steps > 0 /\ hist[f].fin = "cancel"
    /\ running[g]

\* ---------------------------------------------------------------------- C3
\* C3: once Scheduler::cancel(id) has returned true for a queued fibre, the promise
\* of the fibre is destroyed, the running bit of the Id is false, no queue holds
\* the fibre, and its body is not resumed again: all of this holds in the state
\* cancel returns in and in every later state.
C3_Cancel ==
  \A f \in Fibres :
    hist[f].fin = "cancel" =>
      /\ ~frame[f].alive
      /\ ~running[f]
      /\ Holders(f) = 0
      /\ hist[f].steps = hist[f].fsteps

\* A fibre was cancelled after it had run once and an update has completed since.
C3_Witness ==
  \E f \in Fibres :
    /\ hist[f].fin = "cancel" /\ hist[f].steps > 0
    /\ upd.s = 0 /\ last[1] = "returned" /\ ticks[1] > hist[f].tick

\* ---------------------------------------------------------------------- C7
\* C7: a fibre suspended on the Id of another fibre is resumed by a call of
\* Fibre::resume exactly when the running bit of that Id is false; a fibre
\* suspended on its own Id holds a plain yield, is resumed by the next call, and
\* so is never left in that suspension by an update that ran to its end.
C7_AwaitId ==
  /\ ev.call = "resume" /\ ev.op.kind = "id" =>
       /\ ev.op.g # ev.f => (ev.body <=> ~ev.grun)
       /\ ev.op.g = ev.f => ev.body
  /\ \A f \in Fibres :
       frame[f].alive /\ ~frame[f].done /\ hist[f].op.kind = "id" =>
         /\ hist[f].op.g # f => frame[f].resumption = waitId(hist[f].op.g)
         /\ hist[f].op.g = f =>
              /\ frame[f].resumption = yield
              /\ upd.s = 0 /\ last[hist[f].at] = "returned" =>
                   hist[f].tick = ticks[hist[f].at]

\* A fibre that awaited another fibre and was left asleep while that fibre was
\* running is resumed now that the running bit is false.
C7_Witness ==
  /\ ev.call = "resume"
  /\ ev.op.kind = "id" /\ ev.op.g # ev.f
  /\ ev.body /\ ev.slept

\* ---------------------------------------------------------------------- C8
\* C8: on a scheduler with ExceptionHandling::Rethrow, when a fibre body throws,
\* Fibre::resume returns Exception and the update() call making it ends by
\* throwing; from then on the fibre's promise is destroyed, its Id is not running,
\* no queue holds it and its body is not resumed again.
C8_Rethrow ==
  \A s \in Schedulers :
    sched[s].exception_handling = "Rethrow" =>
      /\ ev.call = "resume" /\ ev.s = s /\ ev.body /\ hist[ev.f].op.kind = "throw" =>
           /\ ev.mode = "Exception"
           /\ ev.ret
           /\ last[s] = "threw"
           /\ upd.s = 0
      /\ \A f \in Fibres :
           hist[f].at = s /\ hist[f].fin = "exception" =>
             /\ ~frame[f].alive
             /\ ~running[f]
             /\ Holders(f) = 0
             /\ hist[f].steps = hist[f].fsteps

\* A fibre threw on its second resume, the update threw, and a later update of
\* the same scheduler ran to its end with another fibre still queued.
C8_Witness ==
  \E f, g \in Fibres :
    /\ sched[hist[f].at].exception_handling = "Rethrow"
    /\ hist[f].fin = "exception" /\ hist[f].steps = 2
    /\ last[hist[f].at] = "returned" /\ ticks[hist[f].at] > hist[f].tick
    /\ running[g]

\* ---------------------------------------------------------------------- C9
\* C9: on a scheduler with ExceptionHandling::Log, update() never throws because
\* of a fibre exception.
C9_LogNeverThrows ==
  \A s \in Schedulers : sched[s].exception_handling = "Log" => last[s] # "threw"

\* ---------------------------------------------------------------------- C4
\* g is before f in the start list sorted by (priority, start order).
Before(g, f) ==
  \/ frame[g].priority < frame[f].priority
  \/ frame[g].priority = frame[f].priority /\ g < f

\* C4: the resume calls of one update() go through the fibres in the order of
\* (priority, start order).  When fibre f is resumed, every live fibre before f
\* in that order has been resumed in this update and no fibre after f has; and
\* in the first update the fibres whose bodies have executed when the body of f
\* first executes are exactly f and the fibres before f: the execution order is
\* the sorted start list, whether or not a queue had to grow during the starts.
C4_PriorityOrder ==
  ev.call = "resume" =>
    /\ \A g \in Fibres \ {ev.f} :
         /\ Before(g, ev.f) /\ frame[g].alive => hist[g].tick = ticks[ev.s]
         /\ Before(ev.f, g) => hist[g].tick < ticks[ev.s]
    /\ ticks[ev.s] = 1 =>
         {g \in Fibres : hist[g].steps >= 1} = {g \in Fibres : g = ev.f \/ Before(g, ev.f)}

\* In the first update, after the queue of the bulk priority has grown during
\* the starts, the body of the fibre started first executes after those of more
\* than thirty fibres of lower priority values started later.
C4_Witness ==
  /\ ev.call = "resume" /\ ev.body
  /\ ev.f = 1 /\ frame[1].priority > PrioBulk
  /\ ticks[1] = 1
  /\ \E g \in Fibres : frame[g].priority < PrioBulk
  /\ \E i \in 1..Len(sched[1].fibre_queues) :
       /\ sched[1].fibre_queues[i].priority = PrioBulk
       /\ Cap(sched[1].fibre_queues[i]) > nextPowerOfTwo(MinQueueCapacity)
       /\ FQSize(sched[1].fibre_queues[i]) >= nextPowerOfTwo(MinQueueCapacity) - 1

\* --------------------------------------------------------------------- C11
\* C11: the move is carried out inside the update() in which the fibre awaited
\* moveTo.  The resume call in which the body awaits moveTo(T) returns Moved when
\* the channel of T has room, and the fibre is then in the channel of T; between
\* updates runningCount() of every scheduler is the number of live fibres it
\* owns, so a fibre moved by its owner counts for the target (and not for the
\* owner) before the target is updated, and the counts sum to the number of live
\* fibres.
C11_MoveInSameUpdate ==
  /\ ev.call = "resume" /\ ev.body /\ hist[ev.f].op.kind = "move" /\ ev.room =>
       /\ ev.mode = "Moved"
       /\ HeldByChannel(hist[ev.f].op.tgt, ev.f) = 1
       /\ hist[ev.f].at = hist[ev.f].op.tgt
       /\ hist[ev.f].tick = ticks[ev.s]
  /\ upd.s = 0 =>
       \A s \in Schedulers :
         runningCount(sched[s]) =
           Cardinality({f \in Fibres : frame[f].alive /\ hist[f].at = s})

\* A fibre started on scheduler 1 has moved to 2, back to 1 and now to 2 again, in
\* an update of 1 that has returned: 1 counts no fibre, 2 counts one, and 2 has
\* not been updated since (the fibre is still in its channel).
C11_Witness ==
  /\ upd.s = 0 /\ last[1] = "returned"
  /\ Len(frame) = 1 /\ frame[1].alive
  /\ hist[1].steps = 3 /\ hist[1].at = 2
  /\ runningCount(sched[1]) = 0 /\ runningCount(sched[2]) = 1
  /\ HeldByChannel(2, 1) = 1

\* ---- a thread inside Scheduler::move while the target's thread runs update()
\* The moving thread is inside Fibre::resume of a fibre whose body awaited
\* moveTo(target, priority): the fibre is suspended at that point, the move
\* operation was taken out of its frame, and the thread holds the only handle.
MoveEnter(old_priority, target, priority) ==
  /\ threads.mover.pc = "idle"
  /\ Len(frame) < MaxFibres
  /\ LET f == Len(frame) + 1
     IN /\ frame' = Append(frame, [FrameNew(old_priority) EXCEPT !.scope = "live"])
        /\ running' = Append(running, TRUE)
        /\ hist' = Append(hist, [HistNew(target, << >>) EXCEPT
                                  !.steps = 1, !.at = 0,
                                  !.op = Op("move", 0, 0, target, priority, "Back")])
        /\ threads' = [threads EXCEPT !.mover = [pc |-> "push", f |-> f, target |-> target,
                                                 priority |-> priority, stale |-> @.stale]]
  /\ UNCHANGED <<sched, upd, signal, ev, last, ticks>>

\* Scheduler::move, first statements: the handle is grabbed and the fibre is pushed
\* onto the move channel.  A full channel gives the fibre back (the caller keeps it
\* and tries again on a later resume).
MovePush ==
  /\ threads.mover.pc = "push"
  /\ LET m == threads.mover
         p == SQPush(sched[m.target].move_queue, m.f)
     IN /\ sched' = [sched EXCEPT ![m.target].move_queue = p[1]]
        /\ hist' = IF p[2] = 0 THEN [hist EXCEPT ![m.f].at = m.target] ELSE hist
        /\ threads' = [threads EXCEPT !.mover =
                         IF p[2] # 0 THEN m
                         ELSE IF m.priority # << >> THEN [m EXCEPT !.pc = "pushed"]
                         ELSE [MoverIdle EXCEPT !.stale = m.stale]]
  /\ UNCHANGED <<frame, running, upd, signal, ev, last, ticks>>

\* Scheduler::move, after a successful push with a priority given:
\* handle.promise().frame.priority = *priority.  The handle was grabbed before the
\* push; when the target has destroyed the frame meanwhile the write goes to freed
\* memory: it is lost, or it lands in a live frame that took the memory over.
MoveSetPriority ==
  /\ threads.mover.pc = "pushed"
  /\ LET m == threads.mover
     IN IF frame[m.f].alive
        THEN /\ frame' = [frame EXCEPT ![m.f].priority = m.priority[1]]
             /\ threads' = [threads EXCEPT !.mover = [MoverIdle EXCEPT !.stale = m.stale]]
        ELSE /\ \E g \in {0} \cup {h \in Fibres : frame[h].alive} :
                  frame' = IF g = 0 THEN frame
                           ELSE [frame EXCEPT ![g].priority = m.priority[1]]
             /\ threads' = [threads EXCEPT !.mover = [MoverIdle EXCEPT !.stale = TRUE]]
  /\ UNCHANGED <<running, sched, upd, signal, hist, ev, last, ticks>>

\* The scheduler the fibres are moved to.
RaceTarget == 1

InitRace == InitWith(PrioLevels3, {"Rethrow"})

NextRace ==
  \/ \E old \in Priorities(PrioLevels3), p \in {<< >>} \cup {<<q>> : q \in Priorities(PrioLevels3)} :
       MoveEnter(old, RaceTarget, p)
  \/ MovePush
  \/ MoveSetPriority
  \/ UpdateBegin(RaceTarget, 0)
  \/ UpdateIter(RaceTarget, {Yield, Return})

SpecRace == InitRace /\ [][NextRace]_vars

\* The index of the queue of scheduler s that holds fibre f (0 when none does).
QueueOf(s, f) ==
  LET held == {i \in 1..Len(sched[s].fibre_queues) : f \in FQHeld(sched[s].fibre_queues[i])}
  IN IF held = {} THEN 0 ELSE CHOOSE i \in held : TRUE

\* C12: a fibre that was moved to a scheduler with a priority p and has not been
\* resumed there yet is never in a queue of the target other than the one selected
\* for p, and once it is in a queue its priority is p, whatever the interleaving of
\* the moving thread with the target's update(); a fibre moved without a priority
\* keeps the priority it had.
C12_PriorityOnArrival ==
  \A f \in Fibres :
    LET o == hist[f].op
    IN frame[f].alive /\ o.kind = "move" /\ hist[f].at = o.tgt /\ QueueOf(o.tgt, f) # 0 =>
         IF o.prio # << >>
         THEN /\ QueueOf(o.tgt, f) = selectQueue(sched[o.tgt].fibre_queues, o.prio[1])
              /\ frame[f].priority = o.prio[1]
         ELSE QueueOf(o.tgt, f) = selectQueue(sched[o.tgt].fibre_queues, frame[f].priority)

\* ---- fibres started with declared and undeclared priorities on one scheduler
\* SchedulerParams::priority_levels of TEST(Fibre, incorrectPriority)
StartLevels == <<-1, 1, 2>>

\* The priorities given to start: below every level, declared, between two levels,
\* above every level.
StartPriorities == {-2, 0, 1, 5}

StartFibres == 3

InitStart == InitWith(StartLevels, {"Rethrow"})

NextStart ==
  \/ \E p \in StartPriorities : Len(frame) < StartFibres /\ Start(1, p, <<Yield, Return>>)
  \/ UpdateBegin(1, 0)
  \/ UpdateIter(1, {Return})

SpecStart == InitStart /\ [][NextStart]_vars

\* The declared levels of scheduler s that lie below priority p.
LevelsBelow(s, p) ==
  {sched[s].fibre_queues[i].priority : i \in 1..Len(sched[s].fibre_queues)} \cap
    {l \in -3..6 : l < p}

\* C13: Scheduler::start(fibre, p) appends the fibre at the back of one queue and
\* leaves the other queues alone; for a declared p that queue is the one of level p
\* and no error is logged; for an undeclared p it is the queue of the greatest
\* declared level below p, or the lowest level when p is below all, exactly one
\* error is logged, and the Id returned is valid and running.
C13_StartPlacement ==
  [][ev'.call = "start" /\ ev' # ev =>
       LET s == ev'.s
           f == ev'.f
           p == frame'[f].priority
           queues == sched[s].fibre_queues
           declared == \E i \in 1..Len(queues) : queues[i].priority = p
           level == queues[ev'.qi].priority
       IN /\ f = Len(frame) + 1 /\ running'[f] /\ frame'[f].alive
          /\ \A i \in 1..Len(queues) :
               FQEntries(sched'[s].fibre_queues[i]) =
                 IF i = ev'.qi THEN Append(FQEntries(queues[i]), f) ELSE FQEntries(queues[i])
          /\ declared => level = p /\ ev'.mismatch = 0
          /\ ~declared =>
               /\ ev'.mismatch = 1
               /\ IF LevelsBelow(s, p) = {} THEN ev'.qi = 1 /\ \A i \in 1..Len(queues) : level <= queues[i].priority
                  ELSE level \in LevelsBelow(s, p) /\ \A l \in LevelsBelow(s, p) : l <= level
  ]_vars

\* A priority between two levels was started behind a fibre queued on the lowest
\* queue with a priority below all levels, next to a fibre of a declared level.
C13_Witness ==
  /\ ev.call = "start" /\ ev.mismatch = 1 /\ frame[ev.f].priority = 0
  /\ FQEntries(sched[1].fibre_queues[1]) = <<1, 3>>
  /\ FQEntries(sched[1].fibre_queues[2]) = <<2>>
  /\ frame[1].priority = -2 /\ frame[2].priority = 1

\* ---- fibres that reschedule themselves on one scheduler of three levels
\* The body awaits reschedule(p, position) on its first resume, yields on the
\* second and returns on the third.
ReschedBody(p, position) == <<Op("resched", 0, 0, 0, <<p>>, position), Yield, Return>>

\* The priorities the fibres are started with.
ReschedStart == {0, 1}

InitResched == InitWith(PrioLevels3, {"Rethrow"})

NextResched ==
  \/ \E q \in ReschedStart, p \in Priorities(PrioLevels3), position \in {"Front", "Back"} :
       Len(frame) < MaxFibres /\ Start(1, q, ReschedBody(p, position))
  \/ UpdateBegin(1, 0)
  \/ UpdateIter(1, {Return})

SpecResched == InitResched /\ [][NextResched]_vars

\* The last Fibre::resume call ran the body of ev.f up to a reschedule request.
ReschedRequested ==
  ev.call = "resume" /\ ev.body /\ ev.mode = "Continue" /\ hist[ev.f].op.kind = "resched"

\* Fibre f is queued on queue qi of scheduler s at the given end.
QueuedAt(s, qi, f, position) ==
  LET es == FQEntries(sched[s].fibre_queues[qi])
  IN es # << >> /\ (IF position = "Front" THEN es[1] = f ELSE es[Len(es)] = f)

\* C14 as stated: after the resume in which a fibre awaited reschedule(p, position)
\* it is queued on the queue selected for p at the requested end and its priority is
\* p, also when that queue is the one it was popped from; no request stays pending.
C14_RescheduleAlways ==
  /\ \A f \in Fibres : frame[f].reschedule = << >>
  /\ ReschedRequested =>
       LET o == hist[ev.f].op
       IN /\ QueuedAt(ev.s, selectQueue(sched[ev.s].fibre_queues, o.prio[1]), ev.f, o.pos)
          /\ frame[ev.f].priority = o.prio[1]

\* C14 amended: the request is honoured when p selects a queue other than the one
\* the fibre was popped from; when p selects that same queue the fibre is pushed to
\* its back whatever the position asked for and keeps its priority.  No request
\* stays pending, and a resume without a request requeues at the back of the same
\* queue with the priority unchanged.
C14_RescheduleOtherQueue ==
  /\ \A f \in Fibres : frame[f].reschedule = << >>
  /\ ReschedRequested =>
       LET o == hist[ev.f].op
           target == selectQueue(sched[ev.s].fibre_queues, o.prio[1])
       IN IF target # ev.qi
          THEN /\ QueuedAt(ev.s, target, ev.f, o.pos)
               /\ QueueOf(ev.s, ev.f) = target
               /\ frame[ev.f].priority = o.prio[1]
          ELSE /\ QueuedAt(ev.s, ev.qi, ev.f, "Back")
               /\ frame[ev.f].priority = ev.priority
  /\ ev.call = "resume" /\ ev.body /\ ev.mode = "Continue" /\ hist[ev.f].op.kind = "yield" =>
       /\ QueuedAt(ev.s, ev.qi, ev.f, "Back")
       /\ frame[ev.f].priority = ev.priority

\* A fibre of priority 0 asked for the front of level 1 and was put before the
\* fibre already queued there.
C14_Witness ==
  /\ ReschedRequested /\ ev.f = 1 /\ ev.priority = 0
  /\ hist[1].op.prio = <<1>> /\ hist[1].op.pos = "Front"
  /\ FQEntries(sched[1].fibre_queues[2]) = <<1, 2>>
  /\ frame[1].priority = 1

\* ---- fibres of two levels that move between two schedulers, and cancelAll
\* The priorities the fibres are started with.
ClearStart == {0, 2}

\* The fibres started on scheduler 1 yield once; those started on scheduler 2 await
\* moveTo(scheduler 1) on their first resume.
ClearBody(s) == IF s = 1 THEN <<Yield, Return>> ELSE <<Op("move", 0, 0, 1, << >>, "Back"), Return>>

InitClear == InitWith(PrioLevels3, {"Rethrow"})

NextClear ==
  \/ \E s \in Schedulers, q \in ClearStart : Len(frame) < MaxFibres /\ Start(s, q, ClearBody(s))
  \/ \E s \in Schedulers : UpdateBegin(s, 0)
  \/ \E s \in Schedulers : UpdateIter(s, {Return})
  \/ CancelAll(1)

SpecClear == InitClear /\ [][NextClear]_vars

\* C15: right after cancelAll() on a scheduler (called between updates) the
\* scheduler is empty, its runningCount() is 0, its queues and its move channel hold
\* no handle, and every fibre it owned is destroyed with its Id not running.
C15_CancelAll ==
  ev.call = "cancelAll" =>
    /\ empty(sched[ev.s])
    /\ runningCount(sched[ev.s]) = 0
    /\ \A f \in Fibres :
         /\ HeldBy(ev.s, f) = 0
         /\ hist[f].at = ev.s => ~running[f] /\ ~frame[f].alive

\* cancelAll dropped a fibre that was in a priority queue and one that was still in
\* the inbound move channel.
C15_Witness ==
  /\ ev.call = "cancelAll" /\ Len(frame) = 2
  /\ \E f, g \in Fibres :
       /\ hist[f].fin = "cancelAll" /\ hist[f].op.kind = "move"
       /\ hist[g].fin = "cancelAll" /\ hist[g].op.kind = "yield"
       /\ hist[f].at = ev.s /\ hist[g].at = ev.s

\* ---- fibres on two schedulers and cancel calls with any Id
\* The Ids given to cancel: the invalid Id, the Ids of the fibres, and one Id that
\* no fibre has.
CancelIds == 0..(MaxFibres + 1)

InitCancel == InitWith(PriorityLevels, {"Rethrow"})

NextCancel ==
  \/ \E s \in Schedulers : Len(frame) < MaxFibres /\ Start(s, 0, <<Yield, Return>>)
  \/ \E s \in Schedulers, id \in CancelIds : Cancel(s, id)
  \/ \E s \in Schedulers : UpdateBegin(s, 0)
  \/ \E s \in Schedulers : UpdateIter(s, {Return})

SpecCancel == InitCancel /\ [][NextCancel]_vars

\* C16: a call cancel(id) on scheduler s with an Id that is invalid, that no fibre
\* has, whose fibre is owned by another scheduler, or whose fibre was cancelled or
\* has finished, returns false and changes no frame, no running bit and no queue of
\* any scheduler; a call that returns true ends the fibre, so that every later
\* cancel of that Id is such a call.
C16_CancelIdempotent ==
  [][ev'.call = "cancel" /\ ev' # ev =>
       LET id == ev'.f
           unknown == \/ id = 0
                      \/ id > Len(frame)
                      \/ hist[id].at # ev'.s
                      \/ hist[id].fin # "none"
       IN /\ unknown => /\ ~ev'.ret
                        /\ frame' = frame /\ running' = running /\ sched' = sched
          /\ ev'.ret => /\ hist'[id].fin = "cancel" /\ ~running'[id]
                        /\ \A g \in Fibres \ {id} : frame'[g] = frame[g] /\ running'[g] = running[g]
  ]_vars

\* cancel returned false for the Id of a fibre that an earlier cancel had ended,
\* with another fibre still queued on the same scheduler.
C16_Witness ==
  /\ Len(frame) = 2 /\ frame[2].alive /\ hist[2].at = 1
  /\ ev.call = "cancel" /\ ~ev.ret /\ ev.f = 1 /\ ev.s = 1
  /\ hist[1].fin = "cancel" /\ hist[1].at = 1

\* ---- tickers: fibres that yield n times and then return, on one scheduler
MaxYields == 2

\* Fibre ticker() with n rounds of co_yield {}
TickBody(n) == [i \in 1..(n + 1) |-> IF i <= n THEN Yield ELSE Return]

InitTick == InitWith(PriorityLevels, {"Rethrow"})

NextTick ==
  \/ \E n \in 0..MaxYields : Len(frame) < MaxFibres /\ Start(1, 0, TickBody(n))
  \/ \E e \in 0..MaxEpoch : UpdateBegin(1, e)
  \/ UpdateIter(1, {Return})

SpecTick == InitTick /\ [][NextTick]_vars

Min(a, b) == IF a <= b THEN a ELSE b

\* C17: a fibre that yields n times and then returns has had its body resumed once
\* by each update() since it was started, up to n + 1: between updates the number of
\* resumes is min(k, n + 1) after k updates and its Id is running exactly while
\* k < n + 1; inside an update the fibre has been resumed by it at most once; and
\* once no Id is running the scheduler is empty.
C17_TickPerUpdate ==
  /\ \A f \in Fibres :
       LET n == Len(hist[f].prog) - 1
           k == ticks[1] - hist[f].born
       IN IF upd.s = 0
          THEN /\ hist[f].steps = Min(k, n + 1)
               /\ running[f] <=> k < n + 1
          ELSE /\ hist[f].steps \in {Min(k - 1, n + 1), Min(k, n + 1)}
               /\ running[f] <=> hist[f].steps < n + 1
  /\ upd.s = 0 /\ (\A f \in Fibres : ~running[f]) => empty(sched[1])

\* A ticker of two yields stopped running in the third update after its start, at
\* a later epoch than the second, and the scheduler is empty.
C17_Witness ==
  /\ upd.s = 0 /\ Len(frame) = 1 /\ Len(hist[1].prog) = MaxYields + 1
  /\ ticks[1] - hist[1].born = MaxYields + 1
  /\ ~running[1] /\ hist[1].steps = MaxYields + 1 /\ hist[1].t > 0
  /\ empty(sched[1])

\* ---------------------------------------------------------------------- C18
\* C18: a fibre that was cancelled (by cancel(id) or cancelAll) while suspended
\* inside its body has had the release action of its frame run exactly once, its Id
\* is not running and its body never reached its end, in the state the cancel
\* returns in and in every later one, whatever updates follow; a fibre cancelled
\* before its body began has no release action to run; no release action ever runs
\* twice, and a body that left by itself has run it once.
C18_ReleaseOnCancel ==
  \A f \in Fibres :
    /\ frame[f].released <= 1
    /\ hist[f].fin \in {"cancel", "cancelAll"} =>
         /\ ~running[f]
         /\ hist[f].op.kind \notin {"return", "throw"}
         /\ frame[f].released = (IF hist[f].steps > 0 THEN 1 ELSE 0)
    /\ hist[f].fin \in {"return", "exception"} => frame[f].released = 1
    /\ frame[f].alive /\ hist[f].fin = "none" => frame[f].released = 0

\* A fibre was cancelled by cancel(id) while suspended at a yield, its release
\* action has run, and the next update has completed.
C18_Witness ==
  \E f \in Fibres :
    /\ hist[f].fin = "cancel" /\ hist[f].steps = 1 /\ hist[f].op.kind = "yield"
    /\ frame[f].released = 1 /\ frame[f].scope = "left" /\ ~running[f]
    /\ upd.s = 0 /\ last[1] = "returned" /\ ticks[1] = hist[f].tick + 1

\* --------------------------------------------------------------- ThreadPool
\* SharedQueue::tryPush(fibre): <<queue, pushed>>.  On success the handle has left
\* the caller's Fibre object; on failure the object stays valid.
SQTryPush(sq, f) ==
  IF SQHasRoom(sq) THEN <<[sq EXCEPT !.items = Append(@, f)], TRUE>> ELSE <<sq, FALSE>>

\* generateQueueSelectionSet: queue index i (from 0) occurs queue_count - i times.
RECURSIVE generateQueueSelectionSetFlat(_, _)
generateQueueSelectionSetFlat(i, queue_count) ==
  IF i >= queue_count THEN << >>
  ELSE <<i>> \o generateQueueSelectionSetFlat(i + 1, queue_count)

RECURSIVE generateQueueSelectionSet(_, _)
generateQueueSelectionSet(i, queue_count) ==
  IF i >= queue_count THEN << >>
  ELSE [j \in 1..(queue_count - i) |-> i] \o generateQueueSelectionSet(i + 1, queue_count)

\* ThreadPool::createQueues: the queues (one SharedQueue per sorted level) and the
\* weighted selection.
createQueues(priority_levels, initial_queue_size) ==
  LET given == IF priority_levels = << >> THEN <<0>> ELSE priority_levels
      sorted == SortLevels(given)
  IN [fibre_queues |-> [i \in 1..Len(sorted) |->
                          [items |-> << >>, capacity |-> initial_queue_size,
                           priority |-> sorted[i]]],
      queue_weighted_selection |-> generateQueueSelectionSet(0, Len(given))]

\* ThreadPool::selectQueue
poolSelectQueue(queues, priority) == SelectLoop(queues, priority, 1, 1)[1]

poolEmptyInverted(pool) ==
  \A i \in 1..Len(pool.fibre_queues) : pool.fibre_queues[i].items # << >>

\* ThreadPool::empty
poolEmpty(pool) == \A i \in 1..Len(pool.fibre_queues) : pool.fibre_queues[i].items = << >>

\* The locals of a thread that runs updateNextFibre, a worker (workerThread) or a
\* caller of update(): where it is (pc: "out" of update(), at a pop attempt of
\* nextFibre, about to resume the fibre it holds, about to requeue it), its Fibre
\* object, its selection index and the loop counter of nextFibre; retried says that
\* the loop of updateNextFibre has come round again after a failed requeue.
ThreadNew(kind) ==
  [kind |-> kind, pc |-> IF kind = "worker" THEN "next" ELSE "out", fibre |-> 0,
   selection_index |-> 0, i |-> 0, retried |-> FALSE]

\* The thread that owns the pool: inside ThreadPool::start with the fibre it is
\* pushing, or inside ThreadPool::wait; waited is what the last wait() returned and
\* the value of the counter when it did; i is the queue ThreadPool::cancelAll has
\* come to.
MainIdle == [pc |-> "idle", fibre |-> 0, waited |-> << >>, i |-> 0]

\* ThreadPool::ThreadPool, with the flags _paused and _quit clear, the completion
\* counter of the tasks set to 0 and the
\* number of exceptions that updateNextFibre has logged as errors.
PoolNew(priority_levels, initial_queue_size, kinds) ==
  [mover |-> MoverIdle,
   pool |-> createQueues(priority_levels, initial_queue_size),
   workers |-> [t \in 1..Len(kinds) |-> ThreadNew(kinds[t])],
   main |-> MainIdle,
   paused |-> FALSE,
   quit |-> FALSE,
   logged |-> 0,
   counter |-> 0]

\* Where a thread goes when updateNextFibre has returned: a worker calls it again
\* (after a sleep when it returned false); a caller of update() leaves when it
\* returned false or when continue_condition() says so.
AfterUpdate(w, result, continue) ==
  [w EXCEPT !.fibre = 0, !.i = 0, !.retried = FALSE,
            !.pc = IF w.kind = "worker" \/ (result /\ continue) THEN "next" ELSE "out"]

\* ThreadPool::update is entered by a caller.
UpdateEnter(t) ==
  /\ threads.workers[t].pc = "out"
  /\ threads' = [threads EXCEPT !.workers[t] = [@ EXCEPT !.pc = "next", !.selection_index = 0,
                                                         !.i = 0]]
  /\ UNCHANGED <<frame, running, sched, upd, signal, hist, ev, last, ticks>>

\* One iteration of the loop of ThreadPool::nextFibre: one pop attempt.  A worker
\* enters updateNextFibre only while the pool is not paused and quit is not set
\* (workerThread).
\* A driver whose selection index would start again at 0 after every fibre it
\* found, as if the index were local to updateNextFibre.
NextFibreRestarting(t) ==
  /\ threads.workers[t].pc = "next"
  /\ ~(threads.workers[t].kind = "worker" /\ threads.workers[t].i = 0
         /\ (threads.paused \/ threads.quit))
  /\ LET w == threads.workers[t]
         sel == threads.pool.queue_weighted_selection
         qi == sel[w.selection_index + 1] + 1
         p == SQPop(threads.pool.fibre_queues[qi])
         w1 == [w EXCEPT !.selection_index = (@ + 1) % Len(sel)]
     IN threads' = [threads EXCEPT
                      !.pool.fibre_queues[qi] = p[2],
                      !.workers[t] = IF p[1] # 0
                                     THEN [w EXCEPT !.selection_index = 0, !.pc = "resume",
                                                    !.fibre = p[1], !.i = 0]
                                     ELSE IF w.i + 1 < Len(sel) THEN [w1 EXCEPT !.i = @ + 1]
                                     ELSE AfterUpdate(w1, FALSE, FALSE)]
  /\ UNCHANGED <<frame, running, sched, upd, signal, hist, ev, last, ticks>>

NextFibre(t) ==
  /\ threads.workers[t].pc = "next"
  /\ ~(threads.workers[t].kind = "worker" /\ threads.workers[t].i = 0
         /\ (threads.paused \/ threads.quit))
  /\ LET w == threads.workers[t]
         sel == threads.pool.queue_weighted_selection
         qi == sel[w.selection_index + 1] + 1
         p == SQPop(threads.pool.fibre_queues[qi])
         w1 == [w EXCEPT !.selection_index = (@ + 1) % Len(sel)]
     IN threads' = [threads EXCEPT
                      !.pool.fibre_queues[qi] = p[2],
                      !.workers[t] = IF p[1] # 0 THEN [w1 EXCEPT !.pc = "resume", !.fibre = p[1], !.i = 0]
                                     ELSE IF w.i + 1 < Len(sel) THEN [w1 EXCEPT !.i = @ + 1]
                                     ELSE AfterUpdate(w1, FALSE, FALSE)]
  /\ UNCHANGED <<frame, running, sched, upd, signal, hist, ev, last, ticks>>

ResumeNextRequeue(t, continue) ==
  /\ threads.workers[t].pc = "resume"
  /\ threads.workers[t].kind = "worker" => continue
  /\ \E op \in ProgOps \cup {StartOp} :
       LET w == threads.workers[t]
           f == w.fibre
           r == Resume(World(frame, running, sched), f, 0, op, signal)
           gone == r.mode \in {"Expire", "Moved"}
           W1 == IF gone THEN Destroy(r.W, r.wrapper) ELSE r.W
       IN /\ IF r.body THEN op \in BodyOps(f, {Return}) ELSE op = StartOp
          /\ frame' = W1.frame
          /\ running' = W1.running
          /\ hist' = [hist EXCEPT ![f] = HistAfter(@, r, op, 0, 0)]
          /\ threads' = [threads EXCEPT
                           !.counter = IF r.body /\ op.kind = "return" THEN @ + 1 ELSE @,
                           !.workers[t] = IF gone THEN AfterUpdate(w, TRUE, continue)
                                          ELSE [w EXCEPT !.pc = "push"]]
  /\ UNCHANGED <<sched, upd, signal, ev, last, ticks>>

\* ThreadPool::updateNextFibre from fibre.resume to just before tryPushFibre.  The
\* task's body adds one to the counter before it returns.
ResumeNext(t, continue) ==
  /\ threads.workers[t].pc = "resume"
  /\ threads.workers[t].kind = "worker" => continue
  /\ \E op \in ProgOps \cup {StartOp} :
       LET w == threads.workers[t]
           f == w.fibre
           r == Resume(World(frame, running, sched), f, 0, op, signal)
           gone == r.mode \in {"Expire", "Moved", "Exception"}
           W1 == IF gone THEN Destroy(r.W, r.wrapper)
                 ELSE IF r.reschedule # << >> /\ r.W.frame[f].priority # r.reschedule[1].priority
                 THEN [r.W EXCEPT !.frame[f].priority = r.reschedule[1].priority]
                 ELSE r.W
       IN /\ IF r.body THEN op \in BodyOps(f, {Return}) ELSE op = StartOp
          /\ frame' = W1.frame
          /\ running' = W1.running
          /\ hist' = [hist EXCEPT ![f] = HistAfter(@, r, op, 0, 0)]
          /\ threads' = [threads EXCEPT
                           !.counter = IF r.body /\ op.kind = "return" THEN @ + 1 ELSE @,
                           !.logged = IF r.mode = "Exception" THEN @ + 1 ELSE @,
                           !.workers[t] = IF gone THEN AfterUpdate(w, TRUE, continue)
                                          ELSE [w EXCEPT !.pc = "push"]]
  /\ UNCHANGED <<sched, upd, signal, ev, last, ticks>>

TryPushFibreBlocking(t, continue) ==
  /\ threads.workers[t].pc = "push"
  /\ threads.workers[t].kind = "worker" => continue
  /\ LET w == threads.workers[t]
         qi == poolSelectQueue(threads.pool.fibre_queues, frame[w.fibre].priority)
         p == SQTryPush(threads.pool.fibre_queues[qi], w.fibre)
     IN threads' = [threads EXCEPT
                      !.pool.fibre_queues[qi] = p[1],
                      !.workers[t] = IF p[2] THEN AfterUpdate(w, TRUE, continue) ELSE w]
  /\ UNCHANGED <<frame, running, sched, upd, signal, hist, ev, last, ticks>>

TryPushFibreDropping(t, continue) ==
  /\ threads.workers[t].pc = "push"
  /\ threads.workers[t].kind = "worker" => continue
  /\ LET w == threads.workers[t]
         qi == poolSelectQueue(threads.pool.fibre_queues, frame[w.fibre].priority)
         p == SQTryPush(threads.pool.fibre_queues[qi], w.fibre)
         W == IF p[2] THEN World(frame, running, sched)
              ELSE Destroy(World(frame, running, sched), w.fibre)
     IN /\ threads' = [threads EXCEPT !.pool.fibre_queues[qi] = p[1],
                                      !.workers[t] = AfterUpdate(w, p[2], continue)]
        /\ frame' = W.frame
        /\ running' = W.running
  /\ UNCHANGED <<sched, upd, signal, hist, ev, last, ticks>>

\* ThreadPool::tryPushFibre at the end of the loop of updateNextFibre: on success
\* updateNextFibre returns true, on failure the loop resumes the same fibre again.
TryPushFibre(t, continue) ==
  /\ threads.workers[t].pc = "push"
  /\ threads.workers[t].kind = "worker" => continue
  /\ LET w == threads.workers[t]
         qi == poolSelectQueue(threads.pool.fibre_queues, frame[w.fibre].priority)
         p == SQTryPush(threads.pool.fibre_queues[qi], w.fibre)
     IN threads' = [threads EXCEPT
                      !.pool.fibre_queues[qi] = p[1],
                      !.workers[t] = IF p[2] THEN AfterUpdate(w, TRUE, continue)
                                     ELSE [w EXCEPT !.pc = "resume", !.retried = TRUE]]
  /\ UNCHANGED <<frame, running, sched, upd, signal, hist, ev, last, ticks>>

\* ThreadPool::start up to the first tryPush: the coroutine is created, its
\* priority set.
PoolStart(priority, prog) ==
  /\ threads.main.pc = "idle"
  /\ LET f == Len(frame) + 1
     IN /\ frame' = Append(frame, FrameNew(priority))
        /\ running' = Append(running, TRUE)
        /\ hist' = Append(hist, [HistNew(1, prog) EXCEPT !.at = 0, !.tick = 0, !.born = 0])
        /\ threads' = [threads EXCEPT !.main = [@ EXCEPT !.pc = "start", !.fibre = f]]
  /\ UNCHANGED <<sched, upd, signal, ev, last, ticks>>

\* ThreadPool::start, one round of while (!fibres.tryPush(fibre)): a full queue
\* leaves the thread where it is, to try again after a sleep.
PoolStartPush ==
  /\ threads.main.pc = "start"
  /\ LET f == threads.main.fibre
         qi == poolSelectQueue(threads.pool.fibre_queues, frame[f].priority)
         p == SQTryPush(threads.pool.fibre_queues[qi], f)
     IN threads' = [threads EXCEPT
                      !.pool.fibre_queues[qi] = p[1],
                      !.main = IF p[2] THEN [@ EXCEPT !.pc = "idle", !.fibre = 0] ELSE @]
  /\ UNCHANGED <<frame, running, sched, upd, signal, hist, ev, last, ticks>>

\* ThreadPool::wait(timeout) is entered.
WaitEnter ==
  /\ threads.main.pc = "idle"
  /\ threads' = [threads EXCEPT !.main = [@ EXCEPT !.pc = "wait"]]
  /\ UNCHANGED <<frame, running, sched, upd, signal, hist, ev, last, ticks>>

\* ThreadPool::wait, the loop test: the loop is left when empty() holds or the time
\* is up (expired); otherwise the thread sleeps and tests again.
WaitPoll(expired) ==
  /\ threads.main.pc = "wait"
  /\ threads' = [threads EXCEPT !.main = IF poolEmpty(threads.pool) \/ expired
                                         THEN [@ EXCEPT !.pc = "return"] ELSE @]
  /\ UNCHANGED <<frame, running, sched, upd, signal, hist, ev, last, ticks>>

\* ThreadPool::wait, return empty(): empty() is evaluated again.
WaitReturn ==
  /\ threads.main.pc = "return"
  /\ threads' = [threads EXCEPT !.main = [@ EXCEPT !.pc = "idle",
                                                   !.waited = <<[ret |-> poolEmpty(threads.pool),
                                                                 counter |-> threads.counter]>>]]
  /\ UNCHANGED <<frame, running, sched, upd, signal, hist, ev, last, ticks>>

\* The number of places that hold the handle of fibre f: slots of the pool's
\* queues and Fibre objects local to a thread.
PoolHolders(f) ==
  LET qs == threads.pool.fibre_queues
      slots == UNION {{<<i, k>> : k \in {k \in 1..Len(qs[i].items) : qs[i].items[k] = f}} :
                        i \in 1..Len(qs)}
  IN Cardinality(slots)
       + Cardinality({t \in DOMAIN threads.workers : threads.workers[t].fibre = f})
       + (IF threads.main.fibre = f THEN 1 ELSE 0)

\* ---- a pool of two levels with small queues, two workers and a caller of update()
\* The number of fibres started on a pool.
PoolTasks == 2

\* ThreadPoolParams::initial_queue_size of the pool with small queues.
PoolQueueSize == 1

\* ThreadPoolParams::priority_levels as given.
PoolLevels == <<1, 0>>

\* The bodies of the fibres: one yields and returns; one asks to be rescheduled at
\* level 1 and throws on its next resume.
PoolBodies == {<<Yield, Return>>, <<Op("resched", 0, 0, 0, <<1>>, "Back"), Throw>>}

InitPoolWith(th) ==
  /\ frame = << >>
  /\ running = << >>
  /\ hist = << >>
  /\ sched = [s \in Schedulers |->
               SchedulerNew(PriorityLevels, InitialQueueSize, MoveQueueSize, "Rethrow")]
  /\ upd = NoUpdate
  /\ signal = FALSE
  /\ ev = NoEv
  /\ last = [s \in Schedulers |-> "none"]
  /\ ticks = [s \in Schedulers |-> 0]
  /\ threads = th

InitPool == InitPoolWith(PoolNew(PoolLevels, PoolQueueSize, <<"worker", "worker", "caller">>))

NextPool ==
  \/ \E prog \in PoolBodies : Len(frame) < PoolTasks /\ PoolStart(0, prog)
  \/ PoolStartPush
  \/ \E t \in DOMAIN threads.workers : UpdateEnter(t)
  \/ \E t \in DOMAIN threads.workers : NextFibre(t)
  \/ \E t \in DOMAIN threads.workers, continue \in BOOLEAN : ResumeNext(t, continue)
  \/ \E t \in DOMAIN threads.workers, continue \in BOOLEAN : TryPushFibre(t, continue)

SpecPool == InitPool /\ [][NextPool]_vars

\* C19: in a pool driven by workers and a caller of update(), the handle of every
\* live fibre is held by exactly one place, a slot of one queue or the Fibre object
\* of one thread, and that of a destroyed fibre by none; so no two threads hold, or
\* resume, the same fibre; a fibre is destroyed only once its body has ended, and no
\* body is resumed more often than it has suspension points.
C19_SingleOwner ==
  \A f \in Fibres :
    /\ PoolHolders(f) = (IF frame[f].alive THEN 1 ELSE 0)
    /\ Cardinality({t \in DOMAIN threads.workers : threads.workers[t].fibre = f}) <= 1
    /\ ~frame[f].alive => hist[f].fin \in {"return", "exception"}
    /\ hist[f].steps <= Len(hist[f].prog)
    /\ running[f] <=> frame[f].alive

\* A worker and the caller of update() each hold a fibre; the caller's fibre has
\* come back to it from a failed push onto a full queue.
C19_Witness ==
  /\ Len(frame) = 2
  /\ threads.workers[1].fibre # 0 /\ threads.workers[3].fibre # 0
  /\ threads.workers[1].pc = "push"
  /\ threads.workers[3].pc = "resume" /\ hist[threads.workers[3].fibre].steps = 1

\* ---- TEST(ThreadPool, simple): tasks that yield once, workers, and wait()
\* The body of a task: co_yield {}; counter.fetch_add(1); co_return.
PoolTask == <<Yield, Return>>

\* The pool has one level, queues that take every task, and two workers.
InitPoolLive == InitPoolWith(PoolNew(PriorityLevels, PoolTasks, <<"worker", "worker">>))

NextPoolLive ==
  \/ Len(frame) < PoolTasks /\ PoolStart(0, PoolTask)
  \/ PoolStartPush
  \/ \E t \in DOMAIN threads.workers : NextFibre(t)
  \/ \E t \in DOMAIN threads.workers : ResumeNext(t, TRUE)
  \/ \E t \in DOMAIN threads.workers : TryPushFibre(t, TRUE)
  \/ WaitEnter
  \/ \E expired \in BOOLEAN : WaitPoll(expired)
  \/ WaitReturn

\* Every thread keeps running: a worker loops until the pool is destroyed, and the
\* owner's thread loops inside start and inside wait until they return.
FairPoolLive ==
  /\ \A t \in {1, 2} : /\ WF_vars(NextFibre(t))
                        /\ WF_vars(ResumeNext(t, TRUE))
                        /\ WF_vars(TryPushFibre(t, TRUE))
  /\ WF_vars(PoolStartPush)
  /\ WF_vars(WaitPoll(FALSE))
  /\ WF_vars(WaitReturn)

SpecPoolLive == InitPoolLive /\ [][NextPoolLive]_vars /\ FairPoolLive

\* All tasks have completed: the counter is n, every body was resumed twice and
\* returned, every frame is destroyed, no queue and no thread holds a fibre.
PoolDone ==
  /\ threads.counter = PoolTasks
  /\ \A f \in Fibres : hist[f].fin = "return" /\ hist[f].steps = 2 /\ ~frame[f].alive
  /\ \A i \in 1..Len(threads.pool.fibre_queues) : Len(threads.pool.fibre_queues[i].items) = 0
  /\ \A t \in DOMAIN threads.workers : threads.workers[t].fibre = 0

\* C20: with workers running and queues that take every task, once the n tasks
\* (each yields once, adds one to the counter and returns) have been started, the
\* pool reaches PoolDone and stays there: the counter is exactly n and the pool is
\* empty; the counter never exceeds the number of tasks whose body returned; and a
\* wait() that returns once the counter is n returns true.
C20_AllComplete ==
  /\ (Len(frame) = PoolTasks) ~> [](Len(frame) = PoolTasks /\ PoolDone)
  /\ [](threads.counter = Cardinality({f \in Fibres : hist[f].fin = "return"}))
  /\ [](threads.counter = PoolTasks => PoolDone)
  /\ [](threads.main.waited # << >> /\ threads.main.waited[1].counter = PoolTasks =>
          threads.main.waited[1].ret)

\* All tasks are done and a wait() has returned true with the counter at n.
C20_Witness ==
  /\ PoolDone /\ Len(frame) = PoolTasks
  /\ threads.main.pc = "idle"
  /\ threads.main.waited = <<[ret |-> TRUE, counter |-> PoolTasks]>>

\* ---------------------------------------------------------------------- C21
\* ---- TEST(ThreadPool, zeroWorkers): a pool without workers, driven by update()
\* std::thread::hardware_concurrency() of the machine.
HardwareConcurrency == 2

startWorkersAtLeastOne(worker_count, hardware) ==
  [t \in 1..(IF worker_count = << >> THEN hardware ELSE Max(worker_count[1], 1)) |-> "worker"]

\* ThreadPool::startWorkers: one worker thread per counted worker; worker_count is
\* << >> (no value) or <<n>>.
startWorkers(worker_count, hardware) ==
  LET count == IF worker_count = << >> THEN hardware
               ELSE IF worker_count[1] < 0 THEN Max(hardware + worker_count[1], 1)
               ELSE worker_count[1]
  IN [t \in 1..count |-> "worker"]

\* The threads of a pool made with worker_count = 0, and the owner's thread as the
\* caller of update(), which is the last of them.
ZeroThreads == startWorkers(<<0>>, HardwareConcurrency) \o <<"caller">>

ZeroCaller == Len(ZeroThreads)

InitZero == InitPoolWith(PoolNew(PoolLevels, PoolTasks, ZeroThreads))

\* The owner's thread is in one call at a time: start, wait or update.
NextZero ==
  \/ \E priority \in {0, 1} :
       /\ Len(frame) < PoolTasks /\ threads.workers[ZeroCaller].pc = "out"
       /\ PoolStart(priority, PoolTask)
  \/ PoolStartPush
  \/ threads.workers[ZeroCaller].pc = "out" /\ WaitEnter
  \/ \E expired \in BOOLEAN : WaitPoll(expired)
  \/ WaitReturn
  \/ threads.main.pc = "idle" /\ UpdateEnter(ZeroCaller)
  \/ \E t \in DOMAIN threads.workers : NextFibre(t)
  \/ \E t \in DOMAIN threads.workers : ResumeNext(t, TRUE)
  \/ \E t \in DOMAIN threads.workers : TryPushFibre(t, TRUE)

\* The caller of update() keeps running its loop, whose predicate stays true; so do
\* the loops of start and wait.
FairZero ==
  /\ WF_vars(NextFibre(ZeroCaller))
  /\ WF_vars(ResumeNext(ZeroCaller, TRUE))
  /\ WF_vars(TryPushFibre(ZeroCaller, TRUE))
  /\ WF_vars(PoolStartPush)
  /\ WF_vars(WaitPoll(TRUE))
  /\ WF_vars(WaitReturn)

SpecZero == InitZero /\ [][NextZero]_vars /\ FairZero

\* Every fibre started so far has completed: each body was resumed twice and
\* returned, the counter counts them all, every frame is destroyed, and no queue
\* and no thread holds a fibre.
ZeroDone ==
  /\ threads.counter = Len(frame)
  /\ \A f \in Fibres : hist[f].fin = "return" /\ hist[f].steps = 2 /\ ~frame[f].alive
  /\ \A i \in 1..Len(threads.pool.fibre_queues) : Len(threads.pool.fibre_queues[i].items) = 0
  /\ \A t \in DOMAIN threads.workers : threads.workers[t].fibre = 0

\* C21: in a pool with worker_count = 0 a body is resumed only by the thread that
\* called update(), while it is inside update(); a wait() returns true exactly when
\* no started fibre is left, so a wait() after the starts and before any update()
\* returns false with no body run, and outside update() every fibre is either
\* untouched or completed; an update() whose predicate stays true returns,
\* and when it returns every fibre has completed, the counter equals the number of
\* fibres and the pool is empty.
C21_ZeroWorkers ==
  /\ [][\A f \in DOMAIN hist :
          hist'[f].steps # hist[f].steps =>
            /\ threads.workers[ZeroCaller].kind = "caller"
            /\ threads.workers[ZeroCaller].pc = "resume"
            /\ threads.workers[ZeroCaller].fibre = f]_vars
  /\ [][threads.main.pc = "return" /\ threads'.main.pc = "idle" =>
          threads'.main.waited[1].ret = (\A f \in Fibres : ~frame[f].alive)]_vars
  /\ [](threads.workers[ZeroCaller].pc = "out" =>
          /\ threads.counter = Cardinality({f \in Fibres : ~frame[f].alive})
          /\ \A f \in Fibres :
               \/ hist[f].steps = 0 /\ frame[f].alive
               \/ hist[f].steps = 2 /\ hist[f].fin = "return" /\ ~frame[f].alive)
  /\ [][threads.workers[ZeroCaller].pc # "out" /\ threads'.workers[ZeroCaller].pc = "out" =>
          ZeroDone' /\ poolEmpty(threads'.pool)]_vars
  /\ (threads.workers[ZeroCaller].pc # "out") ~>
       (threads.workers[ZeroCaller].pc = "out" /\ ZeroDone /\ poolEmpty(threads.pool))

\* All fibres were started, a wait() returned false before any body had run, and
\* an update() has then run every body to its end and returned.
C21_Witness ==
  /\ Len(frame) = PoolTasks
  /\ threads.main.waited = <<[ret |-> FALSE, counter |-> 0]>>
  /\ threads.workers[ZeroCaller].pc = "out" /\ threads.main.pc = "idle"
  /\ ZeroDone /\ poolEmpty(threads.pool)

\* ---------------------------------------------------------------------- C22
\* ThreadPool::cancelAll, step by step: the pause flag is set; each queue in turn
\* is cleared, one try_pop and handle.destroy() at a time (SharedQueue::clear); the
\* pause flag is cleared on return.
PoolCancelAll ==
  \/ /\ threads.main.pc = "idle"
     /\ threads' = [threads EXCEPT !.paused = TRUE, !.main = [@ EXCEPT !.pc = "cancel", !.i = 1]]
     /\ UNCHANGED <<frame, running, sched, upd, signal, hist, ev, last, ticks>>
  \/ /\ threads.main.pc = "cancel"
     /\ threads.main.i > Len(threads.pool.fibre_queues)
     /\ threads' = [threads EXCEPT !.paused = FALSE, !.main = [@ EXCEPT !.pc = "idle", !.i = 0]]
     /\ ev' = [NoEv EXCEPT !.call = "cancelAll"]
     /\ UNCHANGED <<frame, running, sched, upd, signal, hist, last, ticks>>
  \/ /\ threads.main.pc = "cancel"
     /\ threads.main.i <= Len(threads.pool.fibre_queues)
     /\ LET i == threads.main.i
            p == SQPop(threads.pool.fibre_queues[i])
            f == p[1]
            W == Destroy(World(frame, running, sched), f)
        IN /\ frame' = W.frame
           /\ running' = W.running
           /\ hist' = IF f # 0 /\ hist[f].fin = "none"
                      THEN [hist EXCEPT ![f] = [@ EXCEPT !.fin = "cancelAll", !.fsteps = hist[f].steps]]
                      ELSE hist
           /\ threads' = [threads EXCEPT !.pool.fibre_queues[i] = p[2],
                                         !.main.i = IF f = 0 THEN @ + 1 ELSE @]
     /\ UNCHANGED <<sched, upd, signal, ev, last, ticks>>

\* ---- TEST(ThreadPool, cancelAll): workers run never-ending tasks, then cancelAll
\* The body of a task, for (;;) { co_yield {}; counter.fetch_add(1); }, as far as
\* it is followed.
EndlessTask == <<Yield, Yield, Yield>>

InitPoolCancel == InitPoolWith(PoolNew(PriorityLevels, PoolTasks, <<"worker", "worker">>))

\* The owner starts the tasks, calls cancelAll() once, and then waits.
NextPoolCancel ==
  \/ Len(frame) < PoolTasks /\ ev.call = "none" /\ PoolStart(0, EndlessTask)
  \/ PoolStartPush
  \/ \E t \in DOMAIN threads.workers : NextFibre(t)
  \/ \E t \in DOMAIN threads.workers :
       /\ threads.workers[t].pc = "resume"
       /\ hist[threads.workers[t].fibre].steps < Len(EndlessTask)
       /\ ResumeNext(t, TRUE)
  \/ \E t \in DOMAIN threads.workers : TryPushFibre(t, TRUE)
  \/ (threads.main.pc = "idle" => ev.call = "none") /\ PoolCancelAll
  \/ ev.call = "cancelAll" /\ WaitEnter
  \/ \E expired \in BOOLEAN : WaitPoll(expired)
  \/ WaitReturn

SpecPoolCancel == InitPoolCancel /\ [][NextPoolCancel]_vars

\* C22: once ThreadPool::cancelAll() has returned, no fibre is running or alive,
\* the pool is empty, and a wait() that returns gives true.
C22_CancelAllDrops ==
  ev.call = "cancelAll" =>
    /\ \A f \in Fibres : ~running[f] /\ ~frame[f].alive
    /\ poolEmpty(threads.pool)
    /\ threads.main.waited # << >> => threads.main.waited[1].ret

\* ---------------------------------------------------------------------- C23
\* The queue ThreadPool::selectQueue gives for fibre f.
PoolQueueFor(f) ==
  threads.pool.fibre_queues[poolSelectQueue(threads.pool.fibre_queues, frame[f].priority)]

\* Fibre f is in a slot of a queue of the pool.
PoolQueued(th, f) ==
  \E i \in 1..Len(th.pool.fibre_queues) :
    \E k \in 1..Len(th.pool.fibre_queues[i].items) : th.pool.fibre_queues[i].items[k] = f

\* C23: the pool never drops a fibre because a queue is full.  Every fibre that
\* has not finished is alive and held by exactly one queue slot or thread, and a
\* fibre is destroyed only when its body returned or threw.  start() returns only
\* in a step that puts its fibre into the queue, which it takes exactly when the
\* queue has room; until then it keeps the fibre, alive.  A worker (or caller of
\* update()) at its requeue either puts the fibre into the queue and lets go of
\* it, when there is room, or keeps the same fibre and goes on to resume it again.
C23_NoDropOnFull ==
  /\ [](\A f \in Fibres :
          /\ frame[f].alive <=> hist[f].fin = "none"
          /\ frame[f].alive => PoolHolders(f) = 1)
  /\ [][threads.main.pc = "start" =>
          LET f == threads.main.fibre
          IN IF threads'.main # threads.main
             THEN /\ SQHasRoom(PoolQueueFor(f))
                  /\ threads'.main.pc = "idle" /\ threads'.main.fibre = 0
                  /\ PoolQueued(threads', f) /\ frame'[f].alive
             ELSE frame'[f].alive /\ ~PoolQueued(threads', f)]_vars
  /\ [][\A t \in DOMAIN threads.workers :
          threads.workers[t].pc = "push" /\ threads'.workers[t] # threads.workers[t] =>
            LET f == threads.workers[t].fibre
            IN IF SQHasRoom(PoolQueueFor(f))
               THEN PoolQueued(threads', f) /\ threads'.workers[t].fibre = 0
               ELSE /\ threads'.workers[t].fibre = f /\ threads'.workers[t].pc = "resume"
                    /\ threads'.workers[t].retried
                    /\ frame'[f].alive /\ ~PoolQueued(threads', f)]_vars
  /\ [][\A t \in DOMAIN threads.workers :
          threads.workers[t].retried /\ threads'.workers[t].fibre # threads.workers[t].fibre =>
            LET f == threads.workers[t].fibre
            IN PoolQueued(threads', f) \/ hist'[f].fin \in {"return", "exception"}]_vars

\* A worker's requeue has failed on a queue that the other fibre fills and that is
\* still full; the worker holds the same fibre, alive, and is about to resume it
\* again.
C23_Witness ==
  \E t \in DOMAIN threads.workers :
    /\ threads.workers[t].kind = "worker" /\ threads.workers[t].retried
    /\ threads.workers[t].pc = "resume" /\ hist[threads.workers[t].fibre].steps = 1
    /\ frame[threads.workers[t].fibre].alive
    /\ ~SQHasRoom(PoolQueueFor(threads.workers[t].fibre))

\* ---------------------------------------------------------------------- C24
\* ---- TEST(ThreadPool, smallQueue): more tasks than queue slots and workers
\* task_count of the test, scaled down: more than SmallQueueSize plus the workers.
SmallTasks == 5

\* params.initial_queue_size of the test.
SmallQueueSize == 2

\* The body of a task: co_yield {}; counter.fetch_add(1); while (block.test())
\* co_yield {}; co_return.  The loop is one suspension point that the flag ends:
\* resumed while the flag is set, the fibre is suspended there again, and it is put
\* back in the queue either way.  signal = TRUE stands for the cleared flag.
SmallTask == <<Yield, Op("ywait", 0, 0, 0, << >>, "Back"), Return>>

InitSmall == InitPoolWith(PoolNew(PriorityLevels, SmallQueueSize, <<"worker", "worker">>))

\* The owner starts the tasks one after the other; unblocker_thread clears the flag
\* at a time of its own.
NextSmall ==
  \/ Len(frame) < SmallTasks /\ PoolStart(0, SmallTask)
  \/ PoolStartPush
  \/ \E t \in DOMAIN threads.workers : NextFibre(t)
  \/ \E t \in DOMAIN threads.workers : ResumeNext(t, TRUE)
  \/ \E t \in DOMAIN threads.workers : TryPushFibre(t, TRUE)
  \/ SetSignal(TRUE)

\* Every thread keeps running: the workers, the owner's loop of start() calls, and
\* unblocker_thread, which clears the flag after its delay whatever the others do.
FairSmall ==
  /\ \A t \in {1, 2} : /\ WF_vars(NextFibre(t))
                        /\ WF_vars(ResumeNext(t, TRUE))
                        /\ WF_vars(TryPushFibre(t, TRUE))
  /\ WF_vars(Len(frame) < SmallTasks /\ PoolStart(0, SmallTask))
  /\ WF_vars(PoolStartPush)
  /\ WF_vars(SetSignal(TRUE))

SpecSmall == InitSmall /\ [][NextSmall]_vars /\ FairSmall

\* All tasks were started and have completed, each once; the pool is empty.
SmallDone ==
  /\ Len(frame) = SmallTasks /\ threads.counter = SmallTasks
  /\ \A f \in Fibres : hist[f].fin = "return" /\ hist[f].steps = Len(SmallTask) /\ ~frame[f].alive
  /\ poolEmpty(threads.pool)
  /\ \A t \in DOMAIN threads.workers : threads.workers[t].fibre = 0
  /\ threads.main.pc = "idle"

C25_ExceptionDropped ==
  /\ [](\A f \in Fibres :
          hist[f].fin = "exception" =>
            /\ ~running[f] /\ ~frame[f].alive /\ PoolHolders(f) = 0
            /\ hist[f].steps = hist[f].fsteps)
  /\ [](threads.logged = Cardinality({f \in Fibres : hist[f].fin = "exception"}))
  /\ [][\A t \in DOMAIN threads.workers :
          LET f == threads.workers[t].fibre
          IN threads.workers[t].pc = "resume" /\ hist[f].fin = "none"
               /\ hist'[f].fin = "exception" =>
                 /\ threads'.workers[t].fibre = 0
                 /\ threads'.workers[t].pc \in {"next", "out"}
                 /\ threads.workers[t].kind = "worker" => threads'.workers[t].pc = "next"
                 /\ threads'.logged = threads.logged + 1]_vars

\* One fibre threw and was dropped and logged; afterwards the other fibre was run
\* to its end, and every thread is without a fibre.
C25_Witness ==
  /\ Len(frame) = 2 /\ threads.logged = 1
  /\ \E f, g \in Fibres : hist[f].fin = "exception" /\ hist[g].fin = "return"
  /\ \A t \in DOMAIN threads.workers : threads.workers[t].fibre = 0

\* ---------------------------------------------------------------------- C26
\* ---- a SharedQueue on its own, used by one caller
\* The capacity the queue is made with.
SQCapacity == 2

\* The number of fibres the caller makes.
SQHandles == 4

\* The queue, the caller's Fibre object (fibre, 0 when it is invalid), the number
\* of fibres made so far, the handles pushed and the handles popped so far, in
\* order, and the last call with what it returned.
QueueUserNew ==
  [queue |-> SharedQueueNew(SQCapacity), fibre |-> 0, made |-> 0, pushed |-> << >>,
   popped |-> << >>, call |-> "none", ret |-> 0]

\* The caller makes a fibre.
QueueMake ==
  /\ threads.fibre = 0 /\ threads.made < SQHandles
  /\ threads' = [threads EXCEPT !.fibre = threads.made + 1, !.made = @ + 1, !.call = "make",
                                !.ret = 0]
  /\ UNCHANGED <<frame, running, sched, upd, signal, hist, ev, last, ticks>>

\* The caller calls queue.tryPush(fibre) with a valid fibre.
QueueTryPush ==
  /\ threads.fibre # 0
  /\ LET p == SQTryPush(threads.queue, threads.fibre)
     IN threads' = [threads EXCEPT !.queue = p[1],
                                   !.fibre = IF p[2] THEN 0 ELSE @,
                                   !.pushed = IF p[2] THEN Append(@, threads.fibre) ELSE @,
                                   !.call = "tryPush", !.ret = IF p[2] THEN 1 ELSE 0]
  /\ UNCHANGED <<frame, running, sched, upd, signal, hist, ev, last, ticks>>

\* The caller calls queue.pop() and lets the fibre it gets go out of scope.
QueuePop ==
  /\ LET p == SQPop(threads.queue)
     IN threads' = [threads EXCEPT !.queue = p[2],
                                   !.popped = IF p[1] # 0 THEN Append(@, p[1]) ELSE @,
                                   !.call = "pop", !.ret = p[1]]
  /\ UNCHANGED <<frame, running, sched, upd, signal, hist, ev, last, ticks>>

\* The caller lets go of the fibre it still holds.
QueueDrop ==
  /\ threads.fibre # 0
  /\ threads' = [threads EXCEPT !.fibre = 0, !.call = "drop", !.ret = 0]
  /\ UNCHANGED <<frame, running, sched, upd, signal, hist, ev, last, ticks>>

InitQueue == InitPoolWith(QueueUserNew)

NextQueue == QueueMake \/ QueueTryPush \/ QueuePop \/ QueueDrop

SpecQueue == InitQueue /\ [][NextQueue]_vars

DqHandles == 34

DqFree == 3

DqBulk == 31

\* The capacities the queue is constructed with.
DqCapacities == {0, 16, 40}

\* The queue, the double-ended sequence it should behave as, the numbers of
\* pushes and of pops of a non-empty queue so far, and the last call with what it
\* returned and whether it made the queue grow, and the Id last given to cancel.
DequeNew(capacity) ==
  [q |-> FibreQueueNew(0, capacity), deque |-> << >>, pushes |-> 0, pops |-> 0,
   call |-> "none", ret |-> 0, grew |-> FALSE, id |-> 0]

\* queue.push(fibre, position) with a new fibre.
DequePush(position) ==
  /\ threads.pushes < DqHandles
  /\ position = "Front" => threads.pushes < DqFree \/ threads.pushes >= DqBulk
  /\ LET f == threads.pushes + 1
     IN threads' = [threads EXCEPT
                      !.q = FQPush(@, f, position),
                      !.deque = IF position = "Back" THEN Append(@, f) ELSE <<f>> \o @,
                      !.pushes = f, !.call = position, !.ret = 0,
                      !.grew = FQFull(threads.q)]
  /\ UNCHANGED <<frame, running, sched, upd, signal, hist, ev, last, ticks>>

\* queue.pop()
DequePop ==
  /\ threads.pushes <= DqFree \/ threads.pushes >= DqBulk
  /\ LET p == FQPop(threads.q)
     IN threads' = [threads EXCEPT
                      !.q = p[2],
                      !.deque = IF @ = << >> THEN @ ELSE Tail(@),
                      !.pops = IF threads.deque = << >> THEN @ ELSE @ + 1,
                      !.call = "pop", !.ret = p[1], !.grew = FALSE]
  /\ UNCHANGED <<frame, running, sched, upd, signal, hist, ev, last, ticks>>

InitDeque == \E capacity \in DqCapacities : InitPoolWith(DequeNew(capacity))

NextDeque ==
  \/ \E position \in {"Back", "Front"} : DequePush(position)
  \/ DequePop

SpecDeque == InitDeque /\ [][NextDeque]_vars

\* C27: a FibreQueue behaves as a double-ended sequence.  Its entries in pop
\* order are that sequence (a push at the back appends, a push at the front puts
\* the fibre before all those queued, a pop takes the first); size() is the number
\* of pushes minus the number of pops of a non-empty queue; empty(), head == tail,
\* holds exactly when the sequence is empty; the capacity is a power of two not
\* below 16 and the queue holds fewer entries than that.  A pop returns the first
\* of the sequence, or an invalid fibre when the queue is empty, which it leaves
\* as it is.  A push makes the queue grow exactly when next(head) == tail, that
\* is when it holds capacity - 1 entries; growth doubles the capacity, and the
\* entries after it are those before it, in order, with the new fibre added.
C27_Deque ==
  /\ [](/\ FQEntries(threads.q) = threads.deque
        /\ FQSize(threads.q) = threads.pushes - threads.pops
        /\ FQSize(threads.q) = Len(threads.deque)
        /\ FQEmpty(threads.q) <=> threads.deque = << >>
        /\ FQEmpty(threads.q) <=> threads.q.head = threads.q.tail
        /\ \E k \in 4..8 : Cap(threads.q) = 2 ^ k
        /\ FQSize(threads.q) < Cap(threads.q))
  /\ [][threads'.call = "pop" /\ threads' # threads =>
          IF threads.deque = << >>
          THEN threads'.ret = 0 /\ threads'.q = threads.q
          ELSE threads'.ret = Head(threads.deque)
               /\ FQEntries(threads'.q) = Tail(threads.deque)]_vars
  /\ [][threads'.pushes # threads.pushes =>
          /\ threads'.grew <=> nextIndex(threads.q, threads.q.head) = threads.q.tail
          /\ threads'.grew <=> FQSize(threads.q) = Cap(threads.q) - 1
          /\ Cap(threads'.q) = (IF threads'.grew THEN 2 * Cap(threads.q) ELSE Cap(threads.q))
          /\ FQSize(threads'.q) = FQSize(threads.q) + 1
          /\ FQEntries(threads'.q) =
               (IF threads'.call = "Back" THEN Append(FQEntries(threads.q), threads'.pushes)
                ELSE <<threads'.pushes>> \o FQEntries(threads.q))]_vars

\* A queue whose entries wrapped round the end of its buffer has grown on a push
\* at the front, and the fibre pushed last is the first to be popped.
C27_Witness ==
  /\ threads.call = "Front" /\ threads.grew /\ Cap(threads.q) = 64
  /\ threads.pops > 0 /\ Len(threads.deque) = 32
  /\ Head(threads.deque) = threads.pushes /\ threads.deque[2] # 1

\* ---------------------------------------------------------------------- C28
\* ---- a FibreQueue on its own, with cancel
\* The number of fibres pushed, and the Ids given to cancel: the invalid Id, the
\* Ids of the fibres and one Id that is never pushed.
CnHandles == 3

CnIds == 0..(CnHandles + 1)

\* queue.cancel(id): in the sequence the queue stands for, the entry becomes a
\* placeholder.
DequeCancel(id) ==
  /\ threads' = [threads EXCEPT
                   !.q = FQCancel(@, id),
                   !.deque = [k \in 1..Len(@) |-> IF id # 0 /\ @[k] = id THEN 0 ELSE @[k]],
                   !.call = "cancel", !.id = id,
                   !.ret = IF FQCancelFound(threads.q, id) THEN 1 ELSE 0,
                   !.grew = FALSE]
  /\ UNCHANGED <<frame, running, sched, upd, signal, hist, ev, last, ticks>>

InitDequeCancel == InitPoolWith(DequeNew(0))

NextDequeCancel ==
  \/ \E position \in {"Back", "Front"} : threads.pushes < CnHandles /\ DequePush(position)
  \/ DequePop
  \/ \E id \in CnIds : DequeCancel(id)

SpecDequeCancel == InitDequeCancel /\ [][NextDequeCancel]_vars

\* C28: FibreQueue::cancel(id) that finds the Id among the queued entries returns
\* true and leaves head, tail, size() and the capacity as they were; the entries
\* in pop order are the same except that the one with this Id is now a
\* placeholder, and contains(id) is false.  A cancel that finds no match (an
\* invalid Id, an Id never queued, already popped or already cancelled) returns
\* false and leaves the queue as it was.  Placeholders count in size(), and the
\* pop that reaches one returns an invalid fibre and takes it out of the queue.
C28_CancelInPlace ==
  /\ [][threads'.call = "cancel" /\ threads' # threads =>
          LET q == threads.q
              q1 == threads'.q
              id == threads'.id
              es == FQEntries(q)
          IN IF id # 0 /\ FQContains(q, id)
             THEN /\ threads'.ret = 1
                  /\ q1.head = q.head /\ q1.tail = q.tail /\ Cap(q1) = Cap(q)
                  /\ FQSize(q1) = FQSize(q)
                  /\ FQEntries(q1) = [k \in 1..Len(es) |-> IF es[k] = id THEN 0 ELSE es[k]]
                  /\ Cardinality({k \in 1..Len(es) : es[k] = id}) = 1
                  /\ ~FQContains(q1, id)
             ELSE threads'.ret = 0 /\ q1 = q]_vars
  /\ [](FQEntries(threads.q) = threads.deque /\ FQSize(threads.q) = Len(threads.deque))
  /\ [][threads'.call = "pop" /\ threads' # threads /\ threads.deque # << >> =>
          /\ threads'.ret = Head(threads.deque)
          /\ FQEntries(threads'.q) = Tail(threads.deque)]_vars

\* The second of three queued fibres was cancelled, and the pop that reached its
\* position has just returned an invalid fibre; the third is still queued.
C28_Witness ==
  /\ threads.call = "pop" /\ threads.ret = 0 /\ threads.pops = 2
  /\ threads.pushes = 3 /\ Len(threads.deque) = 1 /\ threads.deque[1] # 0
  /\ threads.id # 0


\* ---- marking a fibre for cancellation through its Id
\* Id::markForCancellation(): the cancel bit of the frame the Id refers to is set;
\* nothing else is touched. Called between updates, on a fibre that is running.
MarkForCancellation(id) ==
  /\ upd.s = 0
  /\ id \in Fibres /\ running[id]
  /\ frame' = [frame EXCEPT ![id].cancel = TRUE]
  /\ ev' = [NoEv EXCEPT !.call = "mark", !.f = id, !.s = hist[id].at]
  /\ UNCHANGED <<running, sched, upd, signal, hist, last, ticks, threads>>

\* The bodies of the marked fibres: one that yields and one that sleeps. The sleeper
\* and the clock that moves are on scheduler 1.
MarkBodies == {<<Yield, Yield, Return>>, <<Op("sleep", MaxDur, 0, 0, << >>, "Back"), Return>>}

InitMark == InitWith(PriorityLevels, {"Rethrow"})

NextMark ==
  \/ \E s \in Schedulers, prog \in MarkBodies :
       /\ Len(frame) < MaxFibres
       /\ s # 1 => prog[1] = Yield
       /\ Start(s, 0, prog)
  \/ \E id \in Fibres : MarkForCancellation(id)
  \/ \E s \in Schedulers, e \in 0..MaxDur : (s # 1 => e = 0) /\ UpdateBegin(s, e)
  \/ \E s \in Schedulers : UpdateIter(s, {Return})

SpecMark == InitMark /\ [][NextMark]_vars

\* C29: marking a fibre for cancellation through its Id does not stop it: the mark
\* changes nothing but the cancel bit, and the Id keeps running, still held once by
\* its scheduler, for as long as that scheduler has not updated. The body of a marked
\* fibre is never resumed again. The step of the owner's update that pops the marked
\* fibre drops it (frame destroyed, held nowhere) and its Id stops running; an update
\* of another scheduler leaves it running; and when an update of the owner returns
\* no marked fibre of that scheduler is running.
C29_MarkForCancellation ==
  /\ [][ev'.call = "mark" /\ ev' # ev =>
          /\ running' = running /\ sched' = sched /\ hist' = hist
          /\ running'[ev'.f] /\ frame'[ev'.f].cancel /\ frame'[ev'.f].alive]_vars
  /\ [](\A f \in Fibres :
          frame[f].cancel =>
            IF running[f]
            THEN frame[f].alive /\ HeldBy(hist[f].at, f) = 1
            ELSE ~frame[f].alive /\ SumHeld(Schedulers, f) = 0)
  /\ [][\A f \in Fibres :
          frame[f].cancel =>
            /\ hist'[f] = hist[f]
            /\ running[f] /\ ~running'[f] => upd.s = hist[f].at
            /\ upd.s # hist[f].at => running'[f] = running[f]]_vars
  /\ [][\A s \in Schedulers :
          (upd.s = s \/ ticks'[s] # ticks[s]) /\ upd'.s = 0 =>
            \A f \in Fibres : frame'[f].cancel /\ hist'[f].at = s => ~running'[f]]_vars

\* A sleeping fibre that had been resumed once was marked, stayed running until the
\* next update of its scheduler, and was dropped by it, before its wake-up time and
\* without another resume of its body, while a fibre marked on the other scheduler,
\* which has not updated since, is still running.
C29_Witness ==
  /\ Len(frame) = 2 /\ upd.s = 0
  /\ frame[1].cancel /\ ~running[1] /\ ~frame[1].alive
  /\ hist[1].at = 1 /\ hist[1].steps = 1 /\ hist[1].op.kind = "sleep"
  /\ hist[1].t + MaxDur > sched[1].time.epoch_time_s
  /\ ticks[1] = 2 /\ last[1] = "returned"
  /\ frame[2].cancel /\ running[2] /\ hist[2].at = 2
  /\ empty(sched[1])


\* ---- runningCount() and empty() against the fibres a scheduler owns
\* The running fibres scheduler s owns: in its priority queues or its move channel.
OwnedRunning(s) == {f \in Fibres : running[f] /\ HeldBy(s, f) > 0}

\* C30: between calls (start, cancel, cancelAll, update), runningCount() of every
\* scheduler equals the number of running fibres it owns, and empty() is true
\* exactly when it owns no running fibre.
C30_RunningCount ==
  upd.s = 0 =>
    \A s \in Schedulers :
      /\ runningCount(sched[s]) = Cardinality(OwnedRunning(s))
      /\ empty(sched[s]) <=> OwnedRunning(s) = {}


\* ---- fibres started by a fibre body while update() is running
\* Number of parent fibres started from outside.
SpawnParents == 2

\* A parent starts one child at its first resume and yields; a child yields once.
ParentBody == <<Yield, Yield, Return>>

ChildBody == <<Yield, Return>>

\* The fibre the next iteration of updateQueue of scheduler s pops (0: a placeholder).
PoppedNext(s) == FQPop(pumpMoveQueue(sched[s], frame).fibre_queues[upd.qi])[1]

Spawns(f) == f # 0 /\ hist[f].prog = ParentBody /\ hist[f].steps = 0

InitSpawn == InitWith(PrioLevels3, {"Rethrow"})

NextSpawn ==
  \/ \E p \in Priorities(PrioLevels3) :
       /\ Cardinality({f \in Fibres : hist[f].prog = ParentBody}) < SpawnParents
       /\ Start(1, p, ParentBody)
  \/ UpdateBegin(1, 0)
  \/ upd.s = 1 /\ ~Spawns(PoppedNext(1)) /\ UpdateIter(1, {})
  \/ \E c \in Priorities(PrioLevels3) :
       /\ upd.s = 1 /\ Spawns(PoppedNext(1))
       /\ UpdateIterStarting(1, {}, <<[priority |-> c, prog |-> ChildBody]>>)

SpecSpawn == InitSpawn /\ [][NextSpawn]_vars

\* C31: a fibre started by a fibre body during update() is resumed for the first
\* time by a later update() call than the one in which it was started, whatever
\* its priority: the step that resumes a child for the first time belongs to an
\* update with a larger number than the one that was running when it was started.
C31_StartedInBody ==
  [][\A f \in Fibres :
       hist[f].prog = ChildBody /\ hist[f].steps = 0 /\ hist'[f].steps = 1
         => ticks[1] > hist[f].born]_vars


\* ---- one update() over queues whose fibres expire, move away, are rescheduled
\* Number of fibres started in the drain runs.
DrainFibres == 3

\* Number of update() calls in the drain runs.
DrainUpdates == 2

\* The priority the rescheduling fibres ask for.
DrainTarget == 1

MoveAway == Op("move", 0, 0, 2, << >>, "Back")

\* A fibre returns at once, yields once, moves to scheduler 2, asks for a
\* reschedule to DrainTarget, or throws.
DrainBodies ==
  {<<Return>>, <<Yield, Return>>, <<MoveAway, Return>>,
   <<Op("resched", 0, 0, 0, <<DrainTarget>>, "Back"), Return>>, <<Throw>>}

InitDrain == InitWith(PrioLevels3, {"Rethrow"})

\* Scheduler 2 is never updated: its move channel takes one fibre, so one fibre
\* moves away. Fibres are cancelled in place before the update.
NextDrain ==
  \/ \E q \in {0, DrainTarget}, prog \in DrainBodies :
       /\ Len(frame) < DrainFibres
       /\ prog[1] = MoveAway => \A f \in Fibres : hist[f].prog[1] # MoveAway
       /\ prog[1].kind = "resched" => q = 0
       /\ Start(1, q, prog)
  \/ \E id \in Fibres : ticks[1] = 0 /\ running[id] /\ Cancel(1, id)
  \/ Len(frame) = DrainFibres /\ ticks[1] < DrainUpdates /\ UpdateBegin(1, 0)
  \/ UpdateIter(1, {})

SpecDrain == InitDrain /\ [][NextDrain]_vars

\* The fibres whose body the step resumes.
BodyResumed == {f \in Fibres : hist'[f].steps > hist[f].steps}

\* C32: an update() that returns has resumed, in the drain of its queue, every
\* fibre the scheduler still holds, however many fibres ahead of it expired, were
\* cancelled in place, moved away or were rescheduled to another queue (no short
\* drain); and a fibre that this update has resumed and simply pushed back (it
\* yielded) is not resumed again by the same update.
C32_NoShortDrain ==
  /\ [][upd.s = 1 /\ upd'.s = 0 /\ last'[1] = "returned" =>
          \A f \in Fibres :
            running'[f] /\ HeldBy(1, f)' > 0 => hist'[f].tick = ticks'[1]]_vars
  /\ [][\A f \in BodyResumed :
          ~(hist[f].steps > 0 /\ hist[f].tick = ticks[1] /\ hist[f].op.kind = "yield")]_vars

\* An update returned after a drain of queue 1 in which the first fibre was a
\* cancelled placeholder, the second returned, the third was rescheduled to the
\* next queue, and in the drain of that queue it was resumed again.
C32_Witness ==
  /\ Len(frame) = DrainFibres /\ upd.s = 0 /\ last[1] = "returned" /\ ticks[1] = 1
  /\ hist[1].fin = "cancel" /\ hist[2].fin = "return"
  /\ hist[3].op.kind = "return" /\ hist[3].steps = 2 /\ hist[3].prog[1].kind = "resched"


\* ---- the weighted selection of pools with one to MaxLevels priority levels
\* Largest number of priority levels of a pool.
MaxLevels == 3

\* Number of tasks started on these pools and the size of their queues.
SelTasks == 2

SelQueueSize == 2

\* ThreadPoolParams::priority_levels: 0 .. n - 1.
SelLevels == {[i \in 1..n |-> i - 1] : n \in 1..MaxLevels}

InitSelect ==
  \E levels \in SelLevels :
    InitPoolWith(PoolNew(levels, SelQueueSize, <<"worker", "caller">>))

NextSelect ==
  \/ \E priority \in 0..(MaxLevels - 1) :
       /\ Len(frame) < SelTasks /\ priority < Len(threads.pool.fibre_queues)
       /\ PoolStart(priority, PoolTask)
  \/ PoolStartPush
  \/ \E t \in DOMAIN threads.workers : UpdateEnter(t)
  \/ \E t \in DOMAIN threads.workers : NextFibre(t)
  \/ \E t \in DOMAIN threads.workers, continue \in BOOLEAN : ResumeNext(t, continue)
  \/ \E t \in DOMAIN threads.workers, continue \in BOOLEAN : TryPushFibre(t, continue)

SpecSelect == InitSelect /\ [][NextSelect]_vars

\* The number of times queue index i (from 0) occurs in the selection array sel.
Occurs(sel, i) == Cardinality({k \in 1..Len(sel) : sel[k] = i})

\* C33: for N priority levels the weighted selection array has length N(N+1)/2 and
\* holds index i exactly N - i times; every pop attempt of a driver, successful or
\* not, advances the driver's selection index by one modulo the length; an attempt
\* fails only on an empty queue and succeeds with the oldest fibre of the queue the
\* array names at the index; and nextFibre returns an invalid fibre only at the
\* attempt that completes Len(array) failed attempts in a row, which, as every queue
\* occurs in the array, have tried every queue.
C33_WeightedSelection ==
  /\ [](LET sel == threads.pool.queue_weighted_selection
            N == Len(threads.pool.fibre_queues)
        IN /\ Len(sel) = (N * (N + 1)) \div 2
           /\ \A i \in 0..(N - 1) : Occurs(sel, i) = N - i
           /\ \A t \in DOMAIN threads.workers :
                threads.workers[t].selection_index \in 0..(Len(sel) - 1)
                  /\ threads.workers[t].i \in 0..(Len(sel) - 1))
  /\ [][\A t \in DOMAIN threads.workers :
          LET w == threads.workers[t]
              v == threads'.workers[t]
              sel == threads.pool.queue_weighted_selection
              queue == threads.pool.fibre_queues[sel[w.selection_index + 1] + 1]
          IN w.pc = "next" /\ v # w =>
               /\ v.selection_index = (w.selection_index + 1) % Len(sel)
               /\ IF v.pc = "resume"
                  THEN queue.items # << >> /\ v.fibre = Head(queue.items)
                  ELSE /\ queue.items = << >>
                       /\ IF w.i + 1 < Len(sel)
                          THEN v.pc = "next" /\ v.i = w.i + 1
                          ELSE v.i = 0 /\ v.fibre = 0
                                 /\ v.pc = (IF w.kind = "worker" THEN "next" ELSE "out")]_vars

\* In a pool of three levels the worker has made the attempts at indices 0 to 5 of
\* the array, found only the last queue non-empty, popped its fibre at the last
\* index and wrapped its index to 0, while the caller of update() has returned
\* after a full pass of failed attempts.
C33_Witness ==
  /\ Len(threads.pool.fibre_queues) = MaxLevels
  /\ threads.pool.queue_weighted_selection = <<0, 0, 0, 1, 1, 2>>
  /\ threads.workers[1].pc = "resume" /\ threads.workers[1].selection_index = 0
  /\ frame[threads.workers[1].fibre].priority = 2
  /\ threads.workers[2].pc = "out" /\ threads.workers[2].selection_index = 0
  /\ Len(frame) = 1


\* ---- Fibre::nextId called from two threads, on a counter of IdBits bits
\* The width of IdValueType in the model.
IdBits == 4

\* Number of nextId() calls in one run.
IdCalls == 9

IdModulus == 2 ^ IdBits

\* InvalidFibreValue: all bits set.
InvalidFibreValue == IdModulus - 1

\* Id::RunningBit
RunningBit == 1

\* Id::Increment: the counter skips the running bit.
Increment == 2

\* Id::SpecialBits: the bits of the value that are not part of the id.
SpecialBits == RunningBit

\* Id::id(): the value without the running bit.
IdOf(value) == value - BitAnd(value, RunningBit)

\* A thread that calls nextId: where it is and its local id.
IdCallerNew == [pc |-> "idle", id |-> 0]

\* _next_id starts at 0; returned lists the values nextId has returned, in order.
IdsNew == [next_id |-> 0, callers |-> [t \in 1..2 |-> IdCallerNew], returned |-> << >>]

IdsStep(th) ==
  /\ threads' = th
  /\ UNCHANGED <<frame, running, sched, upd, signal, hist, ev, last, ticks>>

IdCallsMade ==
  Len(threads.returned)
    + Cardinality({t \in DOMAIN threads.callers : threads.callers[t].pc # "idle"})

\* nextId, IdValueType id = (_next_id += Id::Increment): one atomic add.
NextIdAdd(t) ==
  /\ threads.callers[t].pc = "idle" /\ IdCallsMade < IdCalls
  /\ LET v == (threads.next_id + Increment) % IdModulus
     IN IdsStep([threads EXCEPT !.next_id = v, !.callers[t] = [pc |-> "test", id |-> v]])

\* nextId, the value is the sentinel apart from its special bits: add again.
NextIdAgain(t) ==
  /\ threads.callers[t].pc = "test"
  /\ BitOr(threads.callers[t].id, SpecialBits) = InvalidFibreValue
  /\ LET v == (threads.next_id + Increment) % IdModulus
     IN IdsStep([threads EXCEPT !.next_id = v, !.callers[t] = [pc |-> "return", id |-> v]])

\* nextId, return id.
NextIdReturn(t) ==
  /\ \/ threads.callers[t].pc = "return"
     \/ /\ threads.callers[t].pc = "test"
        /\ BitOr(threads.callers[t].id, SpecialBits) # InvalidFibreValue
  /\ IdsStep([threads EXCEPT !.returned = Append(@, threads.callers[t].id),
                             !.callers[t] = IdCallerNew])

InitIds == InitPoolWith(IdsNew)

NextIds ==
  \/ \E t \in 1..2 : NextIdAdd(t)
  \/ \E t \in 1..2 : NextIdAgain(t)
  \/ \E t \in 1..2 : NextIdReturn(t)

SpecIds == InitIds /\ [][NextIds]_vars

\* C34: any two calls of nextId(), also concurrent ones, return different values;
\* every returned value has the running bit clear and is not the sentinel, with or
\* without the running bit, also when the counter has reached the top of its range.
C34_UniqueIds ==
  LET ids == threads.returned
  IN /\ \A j, k \in 1..Len(ids) : j # k => ids[j] # ids[k]
     /\ \A k \in 1..Len(ids) :
          /\ BitAnd(ids[k], RunningBit) = 0
          /\ ids[k] # InvalidFibreValue
          /\ ids[k] # IdOf(InvalidFibreValue)


\* ---- ThreadPool::~ThreadPool with workers that hold fibres
\* ThreadPoolParams::initial_queue_size of the pool that is destroyed.
DtorQueueSize == 1

\* Number of tasks started before the pool is destroyed.
DtorTasks == 2

\* workerThread: the loop test finds _quit set and the thread function returns.
WorkerExit(t) ==
  /\ threads.workers[t].kind = "worker" /\ threads.workers[t].pc = "next"
  /\ threads.workers[t].i = 0 /\ threads.quit
  /\ threads' = [threads EXCEPT !.workers[t].pc = "exit"]
  /\ UNCHANGED <<frame, running, sched, upd, signal, hist, ev, last, ticks>>

\* ~ThreadPool: _quit.test_and_set(); cancelAll() follows (PoolCancelAll).
PoolQuit ==
  /\ threads.main.pc = "idle" /\ ~threads.quit
  /\ threads' = [threads EXCEPT !.quit = TRUE]
  /\ UNCHANGED <<frame, running, sched, upd, signal, hist, ev, last, ticks>>

\* The handles in the queues of the pool.
PoolQueuedSet(th) ==
  UNION {{th.pool.fibre_queues[i].items[k] : k \in 1..Len(th.pool.fibre_queues[i].items)} :
           i \in 1..Len(th.pool.fibre_queues)}

\* ~ThreadPool after cancelAll(): every worker is joined, which takes until all of
\* them have returned; then the members are destroyed, and ~SharedQueue clears
\* each queue, destroying the handles left in it.
PoolJoin ==
  /\ threads.main.pc = "idle" /\ threads.quit /\ ev.call = "cancelAll"
  /\ \A t \in DOMAIN threads.workers : threads.workers[t].pc = "exit"
  /\ LET W == DestroyAll(World(frame, running, sched), PoolQueuedSet(threads))
     IN /\ frame' = W.frame
        /\ running' = W.running
  /\ threads' = [threads EXCEPT
                   !.main.pc = "destroyed",
                   !.pool.fibre_queues = [i \in DOMAIN @ |-> [@[i] EXCEPT !.items = << >>]]]
  /\ UNCHANGED <<sched, upd, signal, hist, ev, last, ticks>>

InitPoolDtor == InitPoolWith(PoolNew(PriorityLevels, DtorQueueSize, <<"worker", "worker">>))

\* The owner starts the tasks, which wait for a flag that nobody sets, and then
\* destroys the pool.
NextPoolDtor ==
  \/ Len(frame) < DtorTasks /\ ~threads.quit /\ PoolStart(0, SmallTask)
  \/ PoolStartPush
  \/ \E t \in DOMAIN threads.workers : NextFibre(t)
  \/ \E t \in DOMAIN threads.workers : ResumeNext(t, TRUE)
  \/ \E t \in DOMAIN threads.workers : TryPushFibre(t, TRUE)
  \/ \E t \in DOMAIN threads.workers : WorkerExit(t)
  \/ PoolQuit
  \/ threads.quit /\ (threads.main.pc = "idle" => ev.call = "none") /\ PoolCancelAll
  \/ PoolJoin

\* Every thread keeps running: the workers, and the owner inside the destructor.
FairPoolDtor ==
  /\ \A t \in {1, 2} : /\ WF_vars(NextFibre(t))
                        /\ WF_vars(ResumeNext(t, TRUE))
                        /\ WF_vars(TryPushFibre(t, TRUE))
                        /\ WF_vars(WorkerExit(t))
  /\ WF_vars(threads.quit /\ (threads.main.pc = "idle" => ev.call = "none") /\ PoolCancelAll)
  /\ WF_vars(PoolJoin)

SpecPoolDtor == InitPoolDtor /\ [][NextPoolDtor]_vars /\ FairPoolDtor

\* C35: the destruction of a pool terminates and releases everything: once quit is
\* set, cancelAll() runs, every worker leaves its loop and is joined, and the
\* destructor returns; when it has returned no fibre is alive and no Id is running.
C35_DestructorTerminates ==
  /\ (threads.quit ~> threads.main.pc = "destroyed")
  /\ [](threads.main.pc = "destroyed" =>
          /\ \A f \in Fibres : ~running[f] /\ ~frame[f].alive
          /\ \A t \in DOMAIN threads.workers : threads.workers[t].pc = "exit")


\* ---- one update() over fibres that co_await moveTo(their own scheduler)
\* Number of fibres started before the update.
SelfFibres == 4

\* Number of resumes for which the body of a mover is followed.
SelfMoves == 4

\* for (;;) co_await moveTo(scheduler), on scheduler 1, as far as it is followed.
SelfMover == [k \in 1..SelfMoves |-> Op("move", 0, 0, 1, << >>, "Back")]

InitSelf == InitWith(PriorityLevels, {"Rethrow"})

\* The fibres are started, then update() is called once.  An iteration that would
\* resume a mover beyond the followed part of its body is not taken.
NextSelf ==
  \/ \E prog \in {SelfMover, <<Yield, Return>>} :
       Len(frame) < SelfFibres /\ ticks[1] = 0 /\ Start(1, 0, prog)
  \/ ticks[1] = 0 /\ UpdateBegin(1, 0)
  \/ /\ upd.s = 1
     /\ PoppedNext(1) # 0 => hist[PoppedNext(1)].steps < Len(hist[PoppedNext(1)].prog)
     /\ UpdateIter(1, {})

SpecSelf == InitSelf /\ [][NextSelf]_vars

\* C36: update() returns after finitely many resume calls, also when fibres of
\* one queue co_await moveTo on the scheduler that is running them: a single
\* update() resumes no body SelfMoves times.
C36_UpdateReturns == \A f \in Fibres : hist[f].steps < SelfMoves


\* ---------------------------------------------------------------------- C37
\* C37: when update() is left by a rethrown fibre exception, only the throwing
\* fibre is destroyed: every other fibre of the scheduler keeps its frame and its
\* running Id and is held in exactly one slot of the priority queues, whether the
\* aborted update had resumed it or not; and the next update that returns has
\* resumed every fibre of the scheduler that has not finished.
C37_AbortedUpdate ==
  /\ [][upd.s = 1 /\ last'[1] = "threw" =>
          \A f \in Fibres \ {ev'.f} :
            /\ running'[f] = running[f]
            /\ frame'[f].alive = frame[f].alive
            /\ running[f] /\ HeldBy(1, f) > 0 =>
                 HeldByQueues(1, f)' = 1 /\ HeldBy(1, f)' = 1]_vars
  /\ [][/\ upd.s = 1 /\ upd'.s = 0 /\ last'[1] = "returned"
        /\ \E g \in Fibres : hist[g].fin = "exception" /\ hist[g].tick = ticks[1] - 1
        => \A f \in Fibres :
             hist'[f].at = 1 /\ hist'[f].fin = "none" => hist'[f].tick = ticks'[1]]_vars

\* The first update was aborted by the second fibre of the first queue, after it
\* had resumed the first fibre and before it resumed the third; the second update
\* returned and has resumed both of them.
C37_Witness ==
  /\ Len(frame) = DrainFibres /\ upd.s = 0 /\ last[1] = "returned" /\ ticks[1] = 2
  /\ hist[2].fin = "exception" /\ hist[2].tick = 1
  /\ hist[1].steps = 2 /\ hist[1].tick = 2
  /\ hist[3].steps = 1 /\ hist[3].tick = 2 /\ running[3]


\* ---- one worker drives a pool whose tasks never finish
\* Number of tasks started on the pool; its queues hold as many, so that no push
\* fails.
StarveTasks == 4

\* ThreadPoolParams::priority_levels of the pool.
StarveLevels == <<0, 1, 2>>

\* for (;;) co_yield wait(flag): a task that is requeued after every resume.
StarveTask == <<Op("ywait", 0, 0, 0, << >>, "Back"), Return>>

InitStarve == InitPoolWith(PoolNew(StarveLevels, StarveTasks, <<"worker">>))

\* The owner starts tasks of any priority at any time; the flag the tasks wait
\* for is never set, so every task is requeued after every resume.
NextStarve ==
  \/ \E priority \in {StarveLevels[k] : k \in DOMAIN StarveLevels} :
       Len(frame) < StarveTasks /\ PoolStart(priority, StarveTask)
  \/ PoolStartPush
  \/ NextFibre(1)
  \/ ResumeNext(1, TRUE)
  \/ TryPushFibre(1, TRUE)

SpecStarve == InitStarve /\ [][NextStarve]_vars

\* The queue (index from 1) and the place in it (from 1) where the pool holds
\* fibre f, << >> when no queue holds it.
QueuedPlace(th, f) ==
  LET places == {<<q, p>> \in (DOMAIN th.pool.fibre_queues) \X (1..StarveTasks) :
                   p <= Len(th.pool.fibre_queues[q].items)
                     /\ th.pool.fibre_queues[q].items[p] = f}
  IN IF places = {} THEN << >> ELSE CHOOSE pl \in places : TRUE

\* The number of pop attempts the driver with selection index idx makes before
\* the attempt that is its p-th on queue q.
AttemptsBefore(sel, idx, q, p) ==
  LET On(n) == Cardinality({k \in 0..n : sel[((idx + k) % Len(sel)) + 1] + 1 = q})
  IN CHOOSE n \in 0..(p * Len(sel) - 1) :
       On(n) = p /\ sel[((idx + n) % Len(sel)) + 1] + 1 = q

\* The pop attempts the worker still makes before it pops queued fibre f.
AttemptsLeft(th, f) ==
  LET pl == QueuedPlace(th, f)
  IN AttemptsBefore(th.pool.queue_weighted_selection, th.workers[1].selection_index,
                    pl[1], pl[2])

ArrivingBody == <<Op("move", 0, 0, 2, << >>, "Back"), Yield, Return>>

InitArrive == InitWith(PriorityLevels, {"Rethrow"})

\* Fibres start on scheduler 1 and move to scheduler 2, or start on scheduler 2
\* and stay; cancel is called on either scheduler between the updates.
NextArrive ==
  \/ Len(frame) < MaxFibres /\ Start(1, 0, ArrivingBody)
  \/ Len(frame) < MaxFibres /\ Start(2, 0, <<Yield, Return>>)
  \/ \E s \in Schedulers, id \in CancelIds : Cancel(s, id)
  \/ \E s \in Schedulers : UpdateBegin(s, 0)
  \/ \E s \in Schedulers : UpdateIter(s, {})

SpecArrive == InitArrive /\ [][NextArrive]_vars

\* ---------------------------------------------------------------------- C39
\* C39: Scheduler::cancel(id) returns true exactly when the fibre is stored in
\* one of the scheduler's priority queues. For a fibre that sits in the
\* scheduler's inbound move channel, where runningCount() counts it, cancel
\* returns false and changes nothing: the fibre stays alive with its Id running;
\* the next update() of the scheduler enqueues it and has resumed it when it
\* returns.
C39_CancelInChannel ==
  /\ [][ev'.call = "cancel" /\ ev' # ev =>
          LET id == ev'.f
              s == ev'.s
          IN /\ ev'.ret <=> (id \in Fibres /\ HeldByQueues(s, id) > 0)
             /\ id \in Fibres /\ HeldByChannel(s, id) > 0 =>
                  /\ ~ev'.ret
                  /\ frame' = frame /\ running' = running /\ sched' = sched
                  /\ frame[id].alive /\ running[id]
                  /\ runningCount(sched[s]) > runningCountQueues(sched[s])]_vars
  /\ [][\A s \in Schedulers :
          ticks'[s] > ticks[s] =>
            \A f \in Fibres :
              HeldByChannel(s, f) > 0 =>
                HeldByQueues(s, f)' = 1 /\ HeldByChannel(s, f)' = 0 /\ upd'.s = s]_vars
  /\ [][upd.s = 2 /\ upd'.s = 0 /\ last'[2] = "returned" =>
          \A f \in Fibres :
            running'[f] /\ hist'[f].at = 2 /\ hist'[f].prog = ArrivingBody =>
              hist'[f].steps >= 2 /\ hist'[f].tick = ticks'[2]]_vars

\* cancel on scheduler 2 has returned false for the fibre that sits in the move
\* channel of scheduler 2 after its move from scheduler 1, while the other fibre
\* is in the queue of scheduler 2 and was resumed by an earlier update of it.
C39_Witness ==
  /\ ev.call = "cancel" /\ ~ev.ret /\ ev.s = 2 /\ ev.f = 2
  /\ HeldByChannel(2, 2) = 1 /\ HeldByQueues(2, 2) = 0
  /\ hist[2].prog = ArrivingBody /\ hist[2].steps = 1 /\ hist[2].at = 2 /\ running[2]
  /\ HeldByQueues(2, 1) = 1 /\ hist[1].steps = 1 /\ ticks[2] = 1


\* ---- fibres that await and yield next to fibres that move to their own scheduler
\* Number of fibres started in these runs.
CedeFibres == 3

\* co_await moveTo(scheduler) twice on scheduler 1 itself, then the end.
CedeMover == <<Op("move", 0, 0, 1, << >>, "Back"), Op("move", 0, 0, 1, << >>, "Back"), Return>>

\* co_yield yield(), co_yield wait(flag), co_await wait(flag), co_await id, return.
CedeOps ==
  {Yield, Return, Op("ywait", 0, 0, 0, << >>, "Back"), Op("wait", 0, 0, 0, << >>, "Back")}
    \cup {Op("id", 0, g, 0, << >>, "Back") : g \in 1..CedeFibres}

InitCede == InitWith(PriorityLevels, {"Rethrow"})

\* The fibres are started before the first update; the flag is set and cleared
\* between the updates.
NextCede ==
  \/ \E prog \in {CedeMover, << >>} :
       Len(frame) < CedeFibres /\ ticks[1] = 0 /\ Start(1, 0, prog)
  \/ \E b \in BOOLEAN : upd.s = 0 /\ SetSignal(b)
  \/ Len(frame) = CedeFibres /\ UpdateBegin(1, 0)
  \/ UpdateIter(1, CedeOps)

SpecCede == InitCede /\ [][NextCede]_vars

\* ---------------------------------------------------------------------- C40
\* C40: a co_await whose condition is already met (the predicate is true, the
\* awaited Id is not running) does not suspend the fibre, so no resume ends at
\* such an await; every co_yield cedes control even if its condition is met, so
\* a fibre that an update() has resumed up to a co_yield is not resumed again by
\* the same update().
C40_AwaitContinuesYieldCedes ==
  /\ [][\A f \in BodyResumed :
          /\ hist'[f].op.kind = "wait" => ~signal
          /\ hist'[f].op.kind = "id" => isRunning(running, hist'[f].op.g)]_vars
  /\ [][\A f \in BodyResumed :
          ~(/\ hist[f].steps > 0 /\ hist[f].tick = ticks[1]
            /\ hist[f].op.kind \in {"yield", "ywait"})]_vars

====
